---- MODULE Spec2Model ----
(***************************************************************************)
(* The parameter-search engines of src/models/bo_model.py (BOModel, the    *)
(* direct engine, and TVBOModel, the time-decayed engine) as a state       *)
(* machine.  One engine object is constructed in Init; a single-threaded   *)
(* caller then calls suggest_parameters, update and best_result in any     *)
(* order.  suggest_parameters is a loop, modelled one iteration per step.  *)
(*                                                                         *)
(* The surrogate (skopt.Optimizer) is outside the repository.  What the    *)
(* engines rely on is modelled: ask() yields some point of the declared    *)
(* space (which one is the surrogate's choice, so it is nondeterministic   *)
(* here; after its initial random phase skopt answers every ask with the   *)
(* same cached point until the next tell), and tell(x, y) appends the      *)
(* point to the data the surrogate is fitted on (Xi, yi).                  *)
(*                                                                         *)
(* Rewards are integers here and a decay factor is a fraction <<p, q>>;    *)
(* a decayed value is the exact fraction <<n, d>> of the product that the  *)
(* code computes in floating point.                                        *)
(*                                                                         *)
(* Further down: the recording decoder (src/utils/read_data.py, SpecDecoder), *)
(* the command client RHX_TCPClient (SpecClient), its recording session    *)
(* (SpecRecording), the channel sweep of src/Iterate.py (SpecSweep), the   *)
(* stimulation routine of src/utils/TI.py (SpecTI) and the experiment loop *)
(* of src/TI_dipole_model.py (SpecLoop).  For the scripts the variable     *)
(* board holds what the commands issued through send_command ask of the    *)
(* controller; Ctrl-C is a step of the environment inside a try statement. *)
(***************************************************************************)
EXTENDS Integers, Sequences, FiniteSets, TLC

\* Largest number of update calls explored.
MaxObs == 3

\* amplitude_range=(0, 200), the default of both constructors.
AmpLow == 0
AmpHigh == 200

\* len(all_channels) == 4: the four channel dimensions must be distinct.
NumChannelDims == 4

\* The ti_channels lists explored: one too small for four distinct
\* channels, one just large enough.  Channels are numbered 1..n.
ChannelDomains == {1..3, 1..4}

\* The time_decay values explored, as fractions <<p, q>> = p/q
\* (0.9 is the constructor's default).
Decays == {<<0, 1>>, <<1, 2>>, <<9, 10>>}

\* The rewards a caller reports.
Rewards == {-1, 2, 10}

VARIABLES
    engine,           \* "BOModel" or "TVBOModel": the class constructed
    ti_channels,      \* self.ti_channels
    time_decay,       \* self.time_decay (TVBOModel only)
    params_history,   \* self.params_history
    results_history,  \* self.results_history
    time_stamps,      \* self.time_stamps (TVBOModel only)
    optimizer,        \* self.optimizer: the data it has been told
    pc,               \* "idle", or "asking" inside suggest_parameters' loop
    suggestion,       \* the local `suggestion` while the loop runs
    out,              \* what the most recent completed call returned
    observed,         \* history variable: the arguments of every update call
    last_best,        \* history variable: what best_result returned since
                      \* the latest update, and whether it was called again
    \* The recording decoder (src/utils/read_data.py) and its caller
    \* get_recording_data (src/TI_dipole_model.py):
    file,             \* the capture file: its extension and its content
    dpc,              \* where the decoder is
    fid_pos,          \* the position of the file object `fid` in use
    open_fids,        \* the file objects opened and not closed
    header,           \* the header dict read_header builds
    todo,             \* the loop counters of the running loops
    amplifier_data,   \* the array read_intan_rhs_file fills
    dout,             \* how the call ended, and what it returned
    \* The command client (RHX_TCPClient) and the scripts that drive it:
    sock,             \* self.sock of the client in use
    open_conns,       \* the connections opened and not closed
    sent,             \* the number of commands that went out on a socket
    board,            \* what the commands issued so far ask of the board
    spc,              \* where the script is
    locals,           \* the local variables of the script
    raised,           \* the exception that left the script, if any
    loop              \* the experiment loop: its position and history

\* The variables of the engine and those of the decoder.
evars == <<engine, ti_channels, time_decay, params_history, results_history,
           time_stamps, optimizer, pc, suggestion, out, observed, last_best>>
dvars == <<file, dpc, fid_pos, open_fids, header, todo, amplifier_data, dout>>

svars == <<sock, open_conns, sent, board, spc, locals, raised, loop>>

vars == <<evars, dvars, svars>>

----------------------------------------------------------------------------
(* Helpers *)

RECURSIVE Pow(_, _)
Pow(b, k) == IF k = 0 THEN 1 ELSE b * Pow(b, k - 1)

\* Equality of two fractions <<n, d>>.
RatEq(x, y) == x[1] * y[2] = y[1] * x[2]

NoSuggestion == <<>>
None == [none |-> TRUE]
NoBest == [set |-> FALSE, again |-> FALSE, val |-> None]

----------------------------------------------------------------------------
(* The surrogate: skopt.Optimizer over self.space *)

\* The channel parts and amplitude parts of the proposals explored.
ChannelTuples ==
    { <<1, 2, 3, 4>>, <<2, 1, 4, 3>>, <<1, 1, 2, 3>>,
      <<1, 2, 1, 2>>, <<3, 3, 3, 3>>, <<1, 2, 3, 3>> }

AmpPairs == { <<AmpLow, AmpHigh>>, <<AmpHigh, AmpLow>> }

\* self.space: four Categorical(ti_channels) and two Integer(lo, hi).
InSpace(x, chs) ==
    /\ Len(x) = 6
    /\ \A i \in 1..4 : x[i] \in chs
    /\ \A i \in 5..6 : x[i] \in AmpLow..AmpHigh

\* Optimizer(dimensions=self.space, random_state=0): nothing told yet.
Optimizer_new == [Xi |-> <<>>, yi |-> <<>>]

\* optimizer.ask(): the points the surrogate may propose, all in the space.
Optimizer_ask(chs) ==
    { x \in { t \o a : t \in ChannelTuples, a \in AmpPairs } : InSpace(x, chs) }

\* optimizer.tell(x, y): the point joins the data of the surrogate.
Optimizer_tell(opt, x, y) ==
    [Xi |-> Append(opt.Xi, x), yi |-> Append(opt.yi, y)]

----------------------------------------------------------------------------
(* BOModel *)

\* The break test of the loop: four distinct channel names.
BOModel_distinct_bad(s) == Cardinality({s[1], s[2], s[3], s[4]}) >= NumChannelDims - 1
BOModel_distinct(s) == Cardinality({s[1], s[2], s[3], s[4]}) = NumChannelDims

\* The dict suggest_parameters returns.
BOModel_suggest_return(s) ==
    [channel_a |-> s[1], channel_b |-> s[2],
     return_channel_a |-> s[3], return_channel_b |-> s[4],
     amplitude_a |-> s[5], amplitude_b |-> s[6]]

\* p = [params["channel_a"], ...] of update.
BOModel_param_list_bad(params) ==
    <<params.channel_a, params.return_channel_a,
      params.channel_b, params.return_channel_b,
      params.amplitude_a, params.amplitude_b>>
BOModel_param_list(params) ==
    <<params.channel_a, params.channel_b,
      params.return_channel_a, params.return_channel_b,
      params.amplitude_a, params.amplitude_b>>

\* The value update tells the surrogate: -result.
BOModel_told_value_bad(result) == result
BOModel_told_value(result) == -result

\* np.argmax: the first index (1-based here) of the largest entry.
argmax_last(seq) ==
    CHOOSE i \in 1..Len(seq) :
        /\ \A j \in 1..Len(seq) : seq[j] <= seq[i]
        /\ \A j \in (i + 1)..Len(seq) : seq[j] < seq[i]
argmax_bad(seq) ==
    CHOOSE i \in 1..Len(seq) :
        /\ \A j \in 1..Len(seq) : seq[j] >= seq[i]
        /\ \A j \in 1..(i - 1) : seq[j] > seq[i]
argmax(seq) ==
    CHOOSE i \in 1..Len(seq) :
        /\ \A j \in 1..Len(seq) : seq[j] <= seq[i]
        /\ \A j \in 1..(i - 1) : seq[j] < seq[i]

\* best_result.
BOModel_best_result_bad(results, params) ==
    IF Len(results) < 2
    THEN None
    ELSE [none |-> FALSE, reward |-> results[argmax(results)],
          params |-> params[argmax(results)]]
BOModel_best_result(results, params) ==
    IF results = <<>>
    THEN None
    ELSE [none |-> FALSE, reward |-> results[argmax(results)],
          params |-> params[argmax(results)]]

----------------------------------------------------------------------------
(* TVBOModel *)

TVBOModel_distinct(s) == Cardinality({s[1], s[2], s[3], s[4]}) = NumChannelDims

TVBOModel_suggest_return(s) ==
    [channel_a |-> s[1], channel_b |-> s[2],
     return_channel_a |-> s[3], return_channel_b |-> s[4],
     amplitude_a |-> s[5], amplitude_b |-> s[6]]

TVBOModel_param_list(params) ==
    <<params.channel_a, params.channel_b,
      params.return_channel_a, params.return_channel_b,
      params.amplitude_a, params.amplitude_b>>

\* current_time = len(self.time_stamps), read before the appends.
TVBOModel_current_time_bad(stamps) == Len(stamps) + 1
TVBOModel_current_time(stamps) == Len(stamps)

\* adjusted_results: -res * time_decay ** (current_time - t) for t, res in
\* enumerate(results_history); t is 0-based, the sequence is 1-based.
TVBOModel_adjusted_results_bad(results, decay, current_time) ==
    [i \in 1..Len(results) |->
        <<(-results[i]) * Pow(decay[1], i - 1),
          Pow(decay[2], i - 1)>>]
TVBOModel_adjusted_results(results, decay, current_time) ==
    [i \in 1..Len(results) |->
        <<(-results[i]) * Pow(decay[1], current_time - (i - 1)),
          Pow(decay[2], current_time - (i - 1))>>]

\* for param, adj_result in zip(...): self.optimizer.tell(param, adj_result)
RECURSIVE TVBOModel_tell_all(_, _, _, _)
TVBOModel_tell_all(opt, params, adjusted, i) ==
    IF i > Len(params) \/ i > Len(adjusted)
    THEN opt
    ELSE TVBOModel_tell_all(Optimizer_tell(opt, params[i], adjusted[i]),
                            params, adjusted, i + 1)

\* The results list update keeps: the raw result is appended.
TVBOModel_results_append_bad(results, result, decay) ==
    [i \in 1..(Len(results) + 1) |->
        IF i <= Len(results) THEN (results[i] * decay[1]) \div decay[2]
        ELSE result]
TVBOModel_results_append(results, result, decay) == Append(results, result)

TVBOModel_best_result(results, params) ==
    IF results = <<>>
    THEN None
    ELSE [none |-> FALSE, reward |-> results[argmax(results)],
          params |-> params[argmax(results)]]

----------------------------------------------------------------------------
(* The calls a caller makes *)

\* The assignments a caller passes to update, as dicts, for a channel list.
UpdateParams(chs) ==
    IF Cardinality(chs) >= NumChannelDims
    THEN { BOModel_suggest_return(<<1, 2, 3, 4, AmpLow, AmpHigh>>),
           BOModel_suggest_return(<<2, 1, 4, 3, AmpHigh, AmpLow>>) }
    ELSE { BOModel_suggest_return(<<1, 1, 2, 3, AmpLow, AmpHigh>>),
           BOModel_suggest_return(<<1, 2, 3, 3, AmpHigh, AmpLow>>) }

\* The board as a fresh program knows it: no command issued.
NoCommand == [name |-> "", ch |-> -1, arg |-> ""]
NoBoard == [last |-> NoCommand, runmode |-> "none", enabled |-> {},
            count |-> 0, log |-> <<>>, recording |-> {}]

NoLocals ==
    [i |-> 0, amplitude |-> 0, current_values |-> {},
     main_channel |-> -1, return_channel |-> -1,
     previous_main_channel |-> -1, previous_return_channel |-> -1,
     picks |-> <<>>, k |-> 0, args |-> <<>>, interrupted |-> FALSE]

NoLoop == [pc |-> "off", iteration |-> 0, suggested |-> <<>>, events |-> <<>>,
           recording_data |-> <<>>, result |-> 0, reported |-> None]

\* No script is running.
ScriptsOff ==
    /\ sock = "unset"
    /\ open_conns = 0
    /\ sent = 0
    /\ board = NoBoard
    /\ spc = "off"
    /\ locals = NoLocals
    /\ raised = ""
    /\ loop = NoLoop

\* The decoder is not running.
DecoderOff ==
    /\ file = [ext |-> "", kind |-> "none", bytes |-> <<>>, truth |-> <<>>,
               data |-> [blocks |-> 0, chans |-> 0, spb |-> 128, seed |-> 0,
                         extra |-> 0]]
    /\ dpc = "off"
    /\ fid_pos = 0
    /\ open_fids = {}
    /\ header = [filetype |-> "", version_major |-> 0,
                 amplifier_channels |-> <<>>, num_amplifier_channels |-> 0,
                 data_start_byte |-> 0, total_file_size |-> 0,
                 num_samples_per_data_block |-> 0]
    /\ todo = [notes |-> 0, groups |-> 0, chans |-> 0, blocks |-> 0,
               done |-> 0, bytes_per_block |-> 0, read_offset |-> 0,
               qs |-> [ok |-> FALSE, str |-> <<>>, pos |-> 0, start |-> 0,
                       field |-> <<0, 0>>]]
    /\ amplifier_data = [shape |-> <<0, 0>>, rows |-> <<>>]
    /\ dout = [status |-> "off", at |-> "", exc |-> "", val |-> <<>>]

Init ==
    /\ engine \in {"BOModel", "TVBOModel"}
    /\ ti_channels \in ChannelDomains
    /\ time_decay \in (IF engine = "TVBOModel" THEN Decays ELSE {<<1, 1>>})
    /\ params_history = <<>>
    /\ results_history = <<>>
    /\ time_stamps = <<>>
    /\ optimizer = Optimizer_new
    /\ pc = "idle"
    /\ suggestion = NoSuggestion
    /\ out = [op |-> "init", val |-> None]
    /\ observed = <<>>
    /\ last_best = NoBest
    /\ DecoderOff
    /\ ScriptsOff

\* One iteration of `while True` in BOModel.suggest_parameters: ask, unpack,
\* test; break and return the dict, or go round again.
BOModel_iteration ==
    \E s \in Optimizer_ask(ti_channels) :
        IF BOModel_distinct(s)
        THEN /\ pc' = "idle"
             /\ suggestion' = NoSuggestion
             /\ out' = [op |-> "suggest", val |-> BOModel_suggest_return(s)]
        ELSE /\ pc' = "asking"
             /\ suggestion' = s
             /\ out' = [op |-> "pending", val |-> None]

TVBOModel_iteration ==
    \E s \in Optimizer_ask(ti_channels) :
        IF TVBOModel_distinct(s)
        THEN /\ pc' = "idle"
             /\ suggestion' = NoSuggestion
             /\ out' = [op |-> "suggest", val |-> TVBOModel_suggest_return(s)]
        ELSE /\ pc' = "asking"
             /\ suggestion' = s
             /\ out' = [op |-> "pending", val |-> None]

\* suggest_parameters is called: the first iteration.
BOModel_suggest_parameters ==
    /\ engine = "BOModel"
    /\ pc = "idle"
    /\ BOModel_iteration
    /\ UNCHANGED <<engine, ti_channels, time_decay, params_history,
                   results_history, time_stamps, optimizer, observed,
                   last_best, dvars, svars>>

\* The proposal was rejected: the next iteration.
BOModel_suggest_loop ==
    /\ engine = "BOModel"
    /\ pc = "asking"
    /\ BOModel_iteration
    /\ UNCHANGED <<engine, ti_channels, time_decay, params_history,
                   results_history, time_stamps, optimizer, observed,
                   last_best, dvars, svars>>

TVBOModel_suggest_parameters ==
    /\ engine = "TVBOModel"
    /\ pc = "idle"
    /\ TVBOModel_iteration
    /\ UNCHANGED <<engine, ti_channels, time_decay, params_history,
                   results_history, time_stamps, optimizer, observed,
                   last_best, dvars, svars>>

TVBOModel_suggest_loop ==
    /\ engine = "TVBOModel"
    /\ pc = "asking"
    /\ TVBOModel_iteration
    /\ UNCHANGED <<engine, ti_channels, time_decay, params_history,
                   results_history, time_stamps, optimizer, observed,
                   last_best, dvars, svars>>

\* BOModel.update(params, result).
BOModel_update ==
    /\ engine = "BOModel"
    /\ pc = "idle"
    /\ Len(results_history) < MaxObs
    /\ \E params \in UpdateParams(ti_channels), result \in Rewards :
          LET p == BOModel_param_list(params) IN
          /\ params_history' = Append(params_history, p)
          /\ results_history' = Append(results_history, result)
          /\ optimizer' = Optimizer_tell(optimizer, p, BOModel_told_value(result))
          /\ observed' = Append(observed, [params |-> params, result |-> result])
    /\ out' = [op |-> "update", val |-> None]
    /\ last_best' = NoBest
    /\ UNCHANGED <<engine, ti_channels, time_decay, time_stamps, pc, suggestion,
                   dvars, svars>>

\* TVBOModel.update(params, result).
TVBOModel_update ==
    /\ engine = "TVBOModel"
    /\ pc = "idle"
    /\ Len(results_history) < MaxObs
    /\ \E params \in UpdateParams(ti_channels), result \in Rewards :
          LET p == TVBOModel_param_list(params)
              current_time == TVBOModel_current_time(time_stamps)
              ph == Append(params_history, p)
              rh == TVBOModel_results_append(results_history, result, time_decay)
              adjusted_results ==
                  TVBOModel_adjusted_results(rh, time_decay, current_time)
          IN
          /\ params_history' = ph
          /\ results_history' = rh
          /\ time_stamps' = Append(time_stamps, current_time)
          /\ optimizer' = TVBOModel_tell_all(optimizer, ph, adjusted_results, 1)
          /\ observed' = Append(observed, [params |-> params, result |-> result])
    /\ out' = [op |-> "update", val |-> None]
    /\ last_best' = NoBest
    /\ UNCHANGED <<engine, ti_channels, time_decay, pc, suggestion, dvars, svars>>

\* What a call of best_result leaves in last_best.
BestCalled(val) == [set |-> TRUE, again |-> last_best.set, val |-> val]

\* BOModel.best_result().
BOModel_best_bad ==
    /\ engine = "BOModel"
    /\ pc = "idle"
    /\ out' = [op |-> "best",
               val |-> BOModel_best_result(results_history, params_history)]
    /\ last_best' = BestCalled(out'.val)
    /\ results_history' =
          [i \in 1..Len(results_history) |->
              results_history[Len(results_history) + 1 - i]]
    /\ UNCHANGED <<engine, ti_channels, time_decay, params_history,
                   time_stamps, optimizer, pc, suggestion,
                   observed, dvars, svars>>
BOModel_best ==
    /\ engine = "BOModel"
    /\ pc = "idle"
    /\ out' = [op |-> "best",
               val |-> BOModel_best_result(results_history, params_history)]
    /\ last_best' = BestCalled(out'.val)
    /\ UNCHANGED <<engine, ti_channels, time_decay, params_history,
                   results_history, time_stamps, optimizer, pc, suggestion,
                   observed, dvars, svars>>

\* TVBOModel.best_result().
TVBOModel_best ==
    /\ engine = "TVBOModel"
    /\ pc = "idle"
    /\ out' = [op |-> "best",
               val |-> TVBOModel_best_result(results_history, params_history)]
    /\ last_best' = BestCalled(out'.val)
    /\ UNCHANGED <<engine, ti_channels, time_decay, params_history,
                   results_history, time_stamps, optimizer, pc, suggestion,
                   observed, dvars, svars>>

Next ==
    \/ BOModel_suggest_parameters
    \/ BOModel_suggest_loop
    \/ BOModel_update
    \/ BOModel_best
    \/ TVBOModel_suggest_parameters
    \/ TVBOModel_suggest_loop
    \/ TVBOModel_update
    \/ TVBOModel_best

Spec == Init /\ [][Next]_vars

\* The loop of suggest_parameters is sequential code: while it is inside the
\* loop the program keeps executing iterations.
FairSpec ==
    /\ Spec
    /\ WF_vars(BOModel_suggest_loop)
    /\ WF_vars(TVBOModel_suggest_loop)

----------------------------------------------------------------------------
(* The recording decoder: src/utils/read_data.py *)

(* The capture file.  `bytes` holds the first bytes of the file (the header, *)
(* or what a truncation left of it) one by one, values 0..255.  The sample   *)
(* blocks that follow a complete header are described by `data` and their    *)
(* bytes are computed on demand: `blocks` whole blocks, then `extra` bytes   *)
(* of one more block.  A block as written: 4 bytes of timestamp per sample,  *)
(* the amplifier samples as 16-bit little-endian values channel after        *)
(* channel, then the auxiliary payload (DC amplifier and stimulation words   *)
(* per amplifier channel, two ADC and two digital words, per sample).        *)

Min(a, b) == IF a < b THEN a ELSE b
Max(a, b) == IF a > b THEN a ELSE b

NoData == [blocks |-> 0, chans |-> 0, spb |-> 128, seed |-> 0, extra |-> 0]

\* The 16-bit sample of channel c at sample s of block b (all 0-based).
SampleValue(d, b, c, s) == (d.seed + (b * d.chans + c) * d.spb + s) % 65536

\* The sizes of the parts of a block as written.
WrittenTimestampBytes(d) == 4 * d.spb
WrittenAmplifierBytes(d) == 2 * d.spb * d.chans
WrittenAuxBytes(d) == 2 * (2 * d.spb * d.chans) + 2 * (2 * d.spb * 2)
WrittenBlockBytes(d) ==
    WrittenTimestampBytes(d) + WrittenAmplifierBytes(d) + WrittenAuxBytes(d)

DataBytes(d) == d.blocks * WrittenBlockBytes(d) + d.extra

\* The byte at offset o of the sample blocks.  Timestamps and the auxiliary
\* payload hold 255s.
DataByte(d, o) ==
    LET w == WrittenBlockBytes(d)
        a == (o % w) - WrittenTimestampBytes(d)
    IN IF a >= 0 /\ a < WrittenAmplifierBytes(d)
       THEN LET k == a \div 2
                v == SampleValue(d, o \div w, k \div d.spb, k % d.spb)
            IN IF a % 2 = 0 THEN v % 256 ELSE v \div 256
       ELSE 255

\* os.path.getsize(filename).
FileSize(f) == Len(f.bytes) + DataBytes(f.data)

ByteAt(f, pos) ==
    IF pos < Len(f.bytes) THEN f.bytes[pos + 1]
    ELSE DataByte(f.data, pos - Len(f.bytes))

\* fid.read(n) at position pos: the n bytes there, or as many as are left.
Read(f, pos, n) ==
    [i \in 1..Min(n, Max(0, FileSize(f) - pos)) |-> ByteAt(f, pos + i - 1)]

\* struct.unpack of '<H', '<h' and '<I' on the right number of bytes.  A
\* 32-bit value is kept as its two 16-bit halves <<high, low>>.
U16(b) == b[1] + 256 * b[2]
S16(b) == IF U16(b) >= 32768 THEN U16(b) - 65536 ELSE U16(b)
U32(b) == <<b[3] + 256 * b[4], b[1] + 256 * b[2]>>

\* int('c6912702', 16) and int('d69127ac', 16).
MagicRHD == <<50833, 9986>>
MagicRHS == <<54929, 10156>>

\* correct_magic_number, for the variant the extension names.
correct_magic_number_bad(rhd) == IF rhd THEN MagicRHS ELSE MagicRHD
correct_magic_number(rhd) == IF rhd THEN MagicRHD ELSE MagicRHS

\* 0xFFFFFFFF, the length field of an absent string.
QStringNull == <<65535, 65535>>

\* length // 2 in _read_qstring: the number of 16-bit units to read.
qstring_units_bad(length) == length[1] * 32768 + length[2]
qstring_units(length) == length[1] * 32768 + length[2] \div 2

\* The loop of _read_qstring: read n units from pos on; `ok` is FALSE when a
\* read(2) comes back short (struct.error).  The units read are those that
\* lie whole before the end of the file.
qstring_loop(f, pos, n) ==
    LET left == Max(0, FileSize(f) - pos)
        k == Min(n, left \div 2)
    IN [ok |-> k = n,
        str |-> [i \in 1..k |-> U16(Read(f, pos + 2 * (i - 1), 2))],
        pos |-> IF k = n THEN pos + 2 * k ELSE pos + left]

\* _read_qstring(fid) with fid at pos: the string as its code units and the
\* position afterwards; `start` and `field` record the call.
read_qstring(f, pos) ==
    LET b == Read(f, pos, 4) IN
    IF Len(b) < 4
    THEN [ok |-> FALSE, str |-> <<>>, pos |-> pos + Len(b),
          start |-> pos, field |-> <<0, 0>>]
    ELSE LET r == IF U32(b) = QStringNull
                  THEN [ok |-> TRUE, str |-> <<>>, pos |-> pos + 4]
                  ELSE qstring_loop(f, pos + 4, qstring_units(U32(b)))
         IN [ok |-> r.ok, str |-> r.str, pos |-> r.pos,
             start |-> pos, field |-> U32(b)]

----------------------------------------------------------------------------
(* The capture files explored: written from a description of the header, in *)
(* the layout read_header reads back.                                        *)

\* Largest number of whole sample blocks written to a file.
MaxBlocks == 3

LE16(v) == <<v % 256, v \div 256>>
WriteS16(v) == LE16((v + 65536) % 65536)
Fill(n) == [i \in 1..n |-> 0]

\* The sequences of ss joined end to end (by halves, to stay shallow).
RECURSIVE Concat(_)
Concat(ss) ==
    IF Len(ss) = 0 THEN <<>>
    ELSE IF Len(ss) = 1 THEN ss[1]
    ELSE LET half == Len(ss) \div 2
         IN Concat(SubSeq(ss, 1, half)) \o Concat(SubSeq(ss, half + 1, Len(ss)))

\* A string as stored: the 32-bit length field, then the code units.
QS(units) == [field |-> <<0, 2 * Len(units)>>, units |-> units]
QSNull == [field |-> QStringNull, units |-> <<>>]
WriteQString(q) ==
    LE16(q.field[2]) \o LE16(q.field[1])
        \o Concat([i \in 1..Len(q.units) |-> LE16(q.units[i])])

\* A channel record; signal_type 0 is an amplifier channel.
Chan(n, signal_type, enabled) ==
    [native |-> QS(<<65, 45, 48 + n>>), custom |-> QS(<<48 + n>>),
     signal_type |-> signal_type, enabled |-> enabled]

WriteChannel(layout, ch) ==
    WriteQString(ch.native) \o WriteQString(ch.custom)
        \o WriteS16(0) \o WriteS16(0)
        \o WriteS16(ch.signal_type) \o WriteS16(ch.enabled)
        \o Fill(IF layout = "rhd" THEN 4 ELSE 6)
        \o Fill(16)

\* A signal group: channel records follow only if it is enabled and not empty.
WriteGroup(layout, g) ==
    WriteQString(g.name) \o WriteQString(g.prefix)
        \o WriteS16(g.enabled) \o WriteS16(g.num_channels) \o WriteS16(0)
        \o (IF g.enabled > 0 /\ g.num_channels > 0
            THEN Concat([i \in 1..Len(g.chans) |-> WriteChannel(layout, g.chans[i])])
            ELSE <<>>)

WriteHeader(h) ==
    LE16(h.magic[2]) \o LE16(h.magic[1])
        \o WriteS16(h.major) \o WriteS16(0)
        \o Fill(4)
        \o (IF h.layout = "rhs" THEN Fill(34) ELSE <<>>)
        \o Fill(2)
        \o (IF h.layout = "rhs" THEN Fill(8 + 4 + 12) ELSE <<>>)
        \o WriteQString(h.notes[1]) \o WriteQString(h.notes[2])
        \o WriteQString(h.notes[3])
        \o Fill(4)
        \o (IF h.layout = "rhs" \/ h.major > 1 THEN WriteQString(h.ref) ELSE <<>>)
        \o WriteS16(Len(h.groups))
        \o Concat([i \in 1..Len(h.groups) |-> WriteGroup(h.layout, h.groups[i])])

\* The channels a description holds that are enabled amplifier channels of
\* an enabled group, in group-then-channel order.
IsWrittenAmplifier(ch) == ch.enabled # 0 /\ ch.signal_type = 0
WrittenAmplifierChannels(h) ==
    Concat([i \in 1..Len(h.groups) |->
              IF h.groups[i].enabled > 0 /\ h.groups[i].num_channels > 0
              THEN SelectSeq(h.groups[i].chans, IsWrittenAmplifier) ELSE <<>>])

Group(enabled, chans) ==
    [name |-> QS(<<80>>), prefix |-> QSNull, enabled |-> enabled,
     num_channels |-> Len(chans), chans |-> chans]

\* The group lists explored.
GroupLists ==
    { <<>>,
      << Group(1, <<Chan(1, 0, 1)>>) >>,
      << Group(1, <<Chan(1, 0, 1), Chan(2, 0, 0), Chan(3, 3, 1), Chan(4, 0, 1)>>) >>,
      << [name |-> QSNull, prefix |-> QSNull, enabled |-> 0,
          num_channels |-> 2, chans |-> <<>>],
         Group(1, <<Chan(5, 5, 1), Chan(6, 0, 1)>>),
         Group(1, <<>>) >> }

\* The note fields explored: absent; present, empty and absent; and a note
\* whose length field is odd.
NoteLists ==
    { <<QSNull, QSNull, QSNull>>,
      <<QS(<<72, 105>>), QS(<<>>), QSNull>>,
      <<[field |-> <<0, 3>>, units |-> <<72, 105>>], QSNull, QSNull>> }

\* Headers in the layout of their variant, with that variant's magic number.
Headers ==
    { [layout |-> l, magic |-> IF l = "rhd" THEN MagicRHD ELSE MagicRHS,
       major |-> mj,
       notes |-> n, ref |-> QS(<<82>>), groups |-> g] :
         l \in {"rhd", "rhs"}, mj \in {1, 3}, n \in NoteLists, g \in GroupLists }

\* Headers of which every truncation is explored.
TruncatedHeaders ==
    { h \in Headers : /\ h.major = 3
                      /\ h.notes[2] = QS(<<>>)
                      /\ Len(h.groups) \in {1, 3} }

\* Short headers with each magic number, given each extension.
MagicHeaders ==
    { [layout |-> "rhs", magic |-> m, major |-> 1,
       notes |-> <<QSNull, QSNull, QSNull>>, ref |-> QSNull, groups |-> <<>>] :
         m \in {MagicRHD, MagicRHS, <<0, 0>>} }

\* The sample blocks written after a header: whole blocks and a partial
\* one.  Headers with notes or a later version get one block and a byte.
DataFor(h) ==
    LET c == Len(WrittenAmplifierChannels(h))
        spb == IF h.layout = "rhd" THEN 60 ELSE 128
        whole == [blocks |-> 1, chans |-> c, spb |-> spb, seed |-> 0, extra |-> 0]
    IN IF h.major = 1 /\ h.notes[1] = QSNull
       THEN { [blocks |-> n, chans |-> c, spb |-> spb, seed |-> sd, extra |-> e] :
                n \in 0..MaxBlocks, sd \in {0, 65400},
                e \in {0, 1, WrittenBlockBytes(whole) - 1} }
       ELSE { [whole EXCEPT !.extra = 1] }

\* What the writer knows the amplifier channel list of a header to be.
Truth(h) ==
    LET a == WrittenAmplifierChannels(h)
    IN [i \in 1..Len(a) |-> [native_channel_name |-> a[i].native.units,
                             custom_channel_name |-> a[i].custom.units,
                             signal_type |-> a[i].signal_type]]

\* get_recording_data keeps this many channels.
ChannelLimit == 128

\* A header with one channel more than get_recording_data keeps.
WideHeader ==
    [layout |-> "rhs", magic |-> MagicRHS, major |-> 1,
     notes |-> <<QSNull, QSNull, QSNull>>, ref |-> QSNull,
     groups |-> << Group(1, [n \in 1..(ChannelLimit + 1) |-> Chan(n, 0, 1)]) >>]

Files ==
    UNION { { [ext |-> h.layout, kind |-> "whole", bytes |-> WriteHeader(h),
               truth |-> Truth(h), data |-> d] :
                d \in DataFor(h) } :
             h \in {g \in Headers : g.notes[1].field # <<0, 3>>} }
    \cup
    { [ext |-> h.layout, kind |-> "odd", bytes |-> WriteHeader(h),
       truth |-> <<>>, data |-> NoData] :
          h \in {g \in Headers : g.notes[1].field = <<0, 3>>} }
    \cup
    UNION { { [ext |-> h.layout, kind |-> "cut",
               bytes |-> SubSeq(WriteHeader(h), 1, cut),
               truth |-> <<>>, data |-> NoData] :
                cut \in 0..(Len(WriteHeader(h)) - 1) } :
             h \in TruncatedHeaders }
    \cup
    { [ext |-> e, kind |-> "magic", bytes |-> WriteHeader(h), truth |-> <<>>,
       data |-> NoData] :
          h \in MagicHeaders, e \in {"rhd", "rhs", "dat"} }
    \cup
    { [ext |-> "rhs", kind |-> "whole", bytes |-> WriteHeader(WideHeader),
       truth |-> Truth(WideHeader),
       data |-> [blocks |-> n, chans |-> ChannelLimit + 1, spb |-> 128,
                 seed |-> 7, extra |-> 0]] : n \in {0, 1} }

----------------------------------------------------------------------------
(* read_header, read_intan_rhs_file and get_recording_data, one action per  *)
(* step of the code.                                                         *)

Raised(at, exc) == [status |-> "raised", at |-> at, exc |-> exc, val |-> <<>>]

\* The test that keeps a channel: `channel_enabled and (signal_type == 0)`.
retain_bad(channel_enabled, signal_type) == channel_enabled # 0
retain(channel_enabled, signal_type) == channel_enabled # 0 /\ signal_type = 0

\* _get_bytes_per_data_block(header).
get_bytes_per_data_block(h) ==
    128 * 4
      + 128 * 2 * h.num_amplifier_channels
      + 128 * 2 * h.num_amplifier_channels
      + 128 * 2 * h.num_amplifier_channels
      + 128 * 2 * 2
      + 128 * 2 * 2

\* _rhs_skip_after_amplifier(header).
rhs_skip_after_amplifier(h) ==
    128 * 2 * h.num_amplifier_channels
      + 128 * 2 * h.num_amplifier_channels
      + 128 * 2 * 2
      + 128 * 2 * 2

\* num_data_blocks = data_size_bytes // bytes_per_block.
num_data_blocks_bad(data_size_bytes, bytes_per_block) ==
    (data_size_bytes + bytes_per_block - 1) \div bytes_per_block
num_data_blocks(data_size_bytes, bytes_per_block) ==
    data_size_bytes \div bytes_per_block

\* np.fromfile(fid, dtype=np.uint16, count=n) at pos: the 16-bit values
\* there, fewer than n if the file ends first.
fromfile(f, pos, n) ==
    LET avail == Max(0, FileSize(f) - pos) \div 2
    IN [i \in 1..Min(n, avail) |->
          ByteAt(f, pos + 2 * (i - 1)) + 256 * ByteAt(f, pos + 2 * (i - 1) + 1)]

\* block_values.reshape(num_channels, samples_per_block): row-major.
reshape(values, num_channels, samples_per_block) ==
    [c \in 1..num_channels |->
        [k \in 1..samples_per_block |-> values[(c - 1) * samples_per_block + k]]]

\* np.zeros((num_channels, total_samples), dtype=np.uint16).
zeros(num_channels, total_samples) ==
    [shape |-> <<num_channels, total_samples>>,
     rows |-> [c \in 1..num_channels |-> [k \in 1..total_samples |-> 0]]]

\* amplifier_data[:, read_offset:read_offset + samples_per_block] = block_values.
insert(m, read_offset, samples_per_block, block_values) ==
    [m EXCEPT !.rows =
        [c \in 1..m.shape[1] |->
            [k \in 1..m.shape[2] |->
                IF k > read_offset /\ k <= read_offset + samples_per_block
                THEN block_values[c][k - read_offset]
                ELSE m.rows[c][k]]]]

Fail(at, exc) ==
    /\ dpc' = "failed"
    /\ dout' = Raised(at, exc)

\* Lines 16-23: open the file, then look at the extension.
ReadHeader_open ==
    /\ dpc = "start"
    /\ open_fids' = open_fids \cup {"read_header"}
    /\ fid_pos' = 0
    /\ IF file.ext \in {"rhd", "rhs"}
       THEN /\ header' = [header EXCEPT !.filetype = file.ext]
            /\ dpc' = "magic"
            /\ dout' = dout
       ELSE /\ Fail("read_header", "ValueError: Unrecognized file extension")
            /\ header' = header
    /\ UNCHANGED <<file, todo, amplifier_data, evars, svars>>

\* Lines 26-32: the magic number.
ReadHeader_magic ==
    /\ dpc = "magic"
    /\ LET b == Read(file, fid_pos, 4) IN
       /\ fid_pos' = fid_pos + Len(b)
       /\ IF Len(b) < 4
          THEN Fail("read_header", "struct.error")
          ELSE IF U32(b) # correct_magic_number(header.filetype = "rhd")
          THEN Fail("read_header", "ValueError: Unrecognized file type magic number.")
          ELSE dpc' = "version" /\ dout' = dout
    /\ UNCHANGED <<file, open_fids, header, todo, amplifier_data, evars, svars>>

\* Lines 38-57: version, sample rate, and the fields skipped.
ReadHeader_version ==
    /\ dpc = "version"
    /\ LET v == Read(file, fid_pos, 4)
           r == Read(file, fid_pos + 4, 4)
           rhd == header.filetype = "rhd"
       IN IF Len(v) < 4
          THEN /\ fid_pos' = fid_pos + Len(v)
               /\ Fail("read_header", "struct.error")
               /\ header' = header
          ELSE IF Len(r) < 4
          THEN /\ fid_pos' = fid_pos + 4 + Len(r)
               /\ Fail("read_header", "struct.error")
               /\ header' = [header EXCEPT !.version_major = S16(SubSeq(v, 1, 2))]
          ELSE /\ fid_pos' = fid_pos + 8 + (IF rhd THEN 0 ELSE 34) + 2
                                + (IF rhd THEN 0 ELSE 8 + 4 + 12)
               /\ header' = [header EXCEPT !.version_major = S16(SubSeq(v, 1, 2))]
               /\ dpc' = "notes"
               /\ dout' = dout
    /\ todo' = [todo EXCEPT !.notes = 3]
    /\ UNCHANGED <<file, open_fids, amplifier_data, evars, svars>>

\* Lines 60-62: one of the three notes.
ReadHeader_note ==
    /\ dpc = "notes"
    /\ LET q == read_qstring(file, fid_pos) IN
       /\ fid_pos' = q.pos
       /\ todo' = [todo EXCEPT !.qs = q, !.notes = @ - 1]
       /\ IF ~q.ok
          THEN Fail("read_header", "struct.error")
          ELSE /\ dpc' = IF todo.notes = 1 THEN "ref" ELSE "notes"
               /\ dout' = dout
    /\ UNCHANGED <<file, open_fids, header, amplifier_data, evars, svars>>

\* Lines 64-81: the reference channel, if the variant and version have one,
\* and the number of signal groups.
ReadHeader_groups ==
    /\ dpc = "ref"
    /\ LET rhd == header.filetype = "rhd"
           has_ref == ~rhd \/ header.version_major > 1
           q == read_qstring(file, fid_pos + 4)
           at == IF has_ref THEN q.pos ELSE fid_pos + 4
           n == Read(file, at, 2)
       IN IF has_ref /\ ~q.ok
          THEN /\ fid_pos' = q.pos
               /\ todo' = [todo EXCEPT !.qs = q]
               /\ Fail("read_header", "struct.error")
          ELSE /\ fid_pos' = at + Len(n)
               /\ IF Len(n) < 2
                  THEN /\ todo' = [todo EXCEPT !.qs = IF has_ref THEN q ELSE @]
                       /\ Fail("read_header", "struct.error")
                  ELSE /\ todo' = [todo EXCEPT !.qs = IF has_ref THEN q ELSE @,
                                               !.groups = Max(0, S16(n))]
                       /\ dpc' = "group"
                       /\ dout' = dout
    /\ header' = [header EXCEPT !.amplifier_channels = <<>>,
                                !.num_amplifier_channels = 0]
    /\ UNCHANGED <<file, open_fids, amplifier_data, evars, svars>>

\* Lines 83-90: one signal group's names, flag and channel count.
ReadHeader_group ==
    /\ dpc = "group"
    /\ todo.groups > 0
    /\ LET name == read_qstring(file, fid_pos)
           prefix == read_qstring(file, name.pos)
           g == Read(file, prefix.pos, 6)
       IN IF ~name.ok
          THEN /\ fid_pos' = name.pos
               /\ todo' = [todo EXCEPT !.qs = name]
               /\ Fail("read_header", "struct.error")
          ELSE IF ~prefix.ok
          THEN /\ fid_pos' = prefix.pos
               /\ todo' = [todo EXCEPT !.qs = prefix]
               /\ Fail("read_header", "struct.error")
          ELSE IF Len(g) < 6
          THEN /\ fid_pos' = prefix.pos + Len(g)
               /\ todo' = [todo EXCEPT !.qs = prefix]
               /\ Fail("read_header", "struct.error")
          ELSE LET signal_group_enabled == S16(SubSeq(g, 1, 2))
                   signal_group_num_channels == S16(SubSeq(g, 3, 4))
               IN /\ fid_pos' = prefix.pos + 6
                  /\ dout' = dout
                  /\ IF signal_group_num_channels > 0 /\ signal_group_enabled > 0
                     THEN /\ todo' = [todo EXCEPT !.qs = prefix,
                                         !.chans = signal_group_num_channels]
                          /\ dpc' = "channel"
                     ELSE /\ todo' = [todo EXCEPT !.qs = prefix,
                                                  !.groups = @ - 1]
                          /\ dpc' = "group"
    /\ UNCHANGED <<file, open_fids, header, amplifier_data, evars, svars>>

\* Lines 91-113: one channel record.
ReadHeader_channel ==
    /\ dpc = "channel"
    /\ LET rhd == header.filetype = "rhd"
           native_chan_name == read_qstring(file, fid_pos)
           custom_chan_name == read_qstring(file, native_chan_name.pos)
           n == IF rhd THEN 12 ELSE 14
           unpacked == Read(file, custom_chan_name.pos, n)
       IN IF ~native_chan_name.ok
          THEN /\ fid_pos' = native_chan_name.pos
               /\ todo' = [todo EXCEPT !.qs = native_chan_name]
               /\ header' = header
               /\ Fail("read_header", "struct.error")
          ELSE IF ~custom_chan_name.ok
          THEN /\ fid_pos' = custom_chan_name.pos
               /\ todo' = [todo EXCEPT !.qs = custom_chan_name]
               /\ header' = header
               /\ Fail("read_header", "struct.error")
          ELSE IF Len(unpacked) < n
          THEN /\ fid_pos' = custom_chan_name.pos + Len(unpacked)
               /\ todo' = [todo EXCEPT !.qs = custom_chan_name]
               /\ header' = header
               /\ Fail("read_header", "struct.error")
          ELSE LET signal_type == S16(SubSeq(unpacked, 5, 6))
                   channel_enabled == S16(SubSeq(unpacked, 7, 8))
                   last == todo.chans = 1
               IN /\ fid_pos' = custom_chan_name.pos + n + 8 + 8
                  /\ header' =
                       IF retain(channel_enabled, signal_type)
                       THEN [header EXCEPT !.amplifier_channels = Append(@,
                               [native_channel_name |-> native_chan_name.str,
                                custom_channel_name |-> custom_chan_name.str,
                                signal_type |-> signal_type])]
                       ELSE header
                  /\ todo' = [todo EXCEPT !.qs = custom_chan_name,
                                !.chans = @ - 1,
                                !.groups = IF last THEN @ - 1 ELSE @]
                  /\ dpc' = IF last THEN "group" ELSE "channel"
                  /\ dout' = dout
    /\ UNCHANGED <<file, open_fids, amplifier_data, evars, svars>>

\* Lines 115-127: the derived fields; close the file and return.
ReadHeader_return ==
    /\ dpc = "group"
    /\ todo.groups = 0
    /\ header' = [header EXCEPT
                    !.num_amplifier_channels = Len(header.amplifier_channels),
                    !.data_start_byte = fid_pos,
                    !.total_file_size = FileSize(file),
                    !.num_samples_per_data_block =
                        IF header.filetype = "rhd" THEN 60 ELSE 128]
    /\ open_fids' = open_fids \ {"read_header"}
    /\ dout' = [status |-> "header", at |-> "read_header", exc |-> "", val |-> <<>>]
    /\ dpc' = "setup"
    /\ UNCHANGED <<file, fid_pos, todo, amplifier_data, evars, svars>>

\* read_intan_rhs_file lines 162-192: count the blocks, allocate, reopen.
ReadFile_setup ==
    /\ dpc = "setup"
    /\ LET num_channels == header.num_amplifier_channels
           samples_per_block == header.num_samples_per_data_block
           bytes_per_block == get_bytes_per_data_block(header)
           data_size_bytes == header.total_file_size - header.data_start_byte
           n == num_data_blocks(data_size_bytes, bytes_per_block)
           total_samples == n * samples_per_block
       IN /\ todo' = [todo EXCEPT !.blocks = n, !.done = 0, !.read_offset = 0,
                                  !.bytes_per_block = bytes_per_block]
          /\ IF total_samples < 0
             THEN /\ Fail("read_intan_rhs_file",
                          "ValueError: negative dimensions are not allowed")
                  /\ UNCHANGED <<amplifier_data, open_fids, fid_pos>>
             ELSE /\ amplifier_data' = zeros(num_channels, total_samples)
                  /\ open_fids' = open_fids \cup {"read_intan_rhs_file"}
                  /\ fid_pos' = header.data_start_byte
                  /\ dpc' = "block"
                  /\ dout' = dout
    /\ UNCHANGED <<file, header, evars, svars>>

\* Lines 193-211: one pass of the loop over the data blocks.
ReadFile_block ==
    /\ dpc = "block"
    /\ todo.done < todo.blocks
    /\ LET num_channels == header.num_amplifier_channels
           samples_per_block == header.num_samples_per_data_block
           at == fid_pos + 4 * samples_per_block
           block_values == fromfile(file, at, samples_per_block * num_channels)
       IN IF Len(block_values) # num_channels * samples_per_block
          THEN /\ fid_pos' = at + 2 * Len(block_values)
               /\ Fail("read_intan_rhs_file", "ValueError: cannot reshape array")
               /\ UNCHANGED <<amplifier_data, todo>>
          ELSE /\ amplifier_data' =
                     insert(amplifier_data, todo.read_offset, samples_per_block,
                            reshape(block_values, num_channels, samples_per_block))
               /\ fid_pos' = at + 2 * Len(block_values)
                                + rhs_skip_after_amplifier(header)
               /\ todo' = [todo EXCEPT !.done = @ + 1,
                                       !.read_offset = @ + samples_per_block]
               /\ dpc' = "block"
               /\ dout' = dout
    /\ UNCHANGED <<file, open_fids, header, evars, svars>>

\* Lines 213-221: close the file and return the matrix and the header.
ReadFile_return ==
    /\ dpc = "block"
    /\ todo.done >= todo.blocks
    /\ open_fids' = open_fids \ {"read_intan_rhs_file"}
    /\ dout' = [status |-> "decoded", at |-> "read_intan_rhs_file", exc |-> "",
                val |-> <<>>]
    /\ dpc' = "decoded"
    /\ UNCHANGED <<file, fid_pos, header, todo, amplifier_data, evars, svars>>

\* get_recording_data lines 54-68 (src/TI_dipole_model.py): the last sample
\* of each of the first 128 channels, padded with zeros.
GetRecordingData ==
    /\ dpc = "decoded"
    /\ LET num_channels_in_file == amplifier_data.shape[1]
           total_samples == amplifier_data.shape[2]
           last(c) == amplifier_data.rows[c][total_samples]
       IN IF total_samples = 0
          THEN dout' = Raised("get_recording_data", "IndexError")
          ELSE IF num_channels_in_file >= ChannelLimit
          THEN dout' = [status |-> "recording", at |-> "get_recording_data",
                        exc |-> "", val |-> [c \in 1..ChannelLimit |-> last(c)]]
          ELSE dout' = [status |-> "recording", at |-> "get_recording_data",
                        exc |-> "",
                        val |-> [c \in 1..num_channels_in_file |-> last(c)]
                                  \o [c \in 1..(ChannelLimit - num_channels_in_file) |-> 0]]
    /\ dpc' = "done"
    /\ UNCHANGED <<file, fid_pos, open_fids, header, todo, amplifier_data, evars, svars>>

\* One call of get_recording_data on each file explored; the engine idle.
DecoderInit ==
    /\ engine = "BOModel"
    /\ ti_channels = 1..4
    /\ time_decay = <<1, 1>>
    /\ params_history = <<>>
    /\ results_history = <<>>
    /\ time_stamps = <<>>
    /\ optimizer = Optimizer_new
    /\ pc = "idle"
    /\ suggestion = NoSuggestion
    /\ out = [op |-> "init", val |-> None]
    /\ observed = <<>>
    /\ last_best = NoBest
    /\ file \in Files
    /\ dpc = "start"
    /\ fid_pos = 0
    /\ open_fids = {}
    /\ header = [filetype |-> "", version_major |-> 0,
                 amplifier_channels |-> <<>>, num_amplifier_channels |-> 0,
                 data_start_byte |-> 0, total_file_size |-> 0,
                 num_samples_per_data_block |-> 0]
    /\ todo = [notes |-> 0, groups |-> 0, chans |-> 0, blocks |-> 0,
               done |-> 0, bytes_per_block |-> 0, read_offset |-> 0,
               qs |-> [ok |-> FALSE, str |-> <<>>, pos |-> 0, start |-> 0,
                       field |-> <<0, 0>>]]
    /\ amplifier_data = [shape |-> <<0, 0>>, rows |-> <<>>]
    /\ dout = [status |-> "off", at |-> "", exc |-> "", val |-> <<>>]
    /\ ScriptsOff

DecoderNext ==
    \/ ReadHeader_open
    \/ ReadHeader_magic
    \/ ReadHeader_version
    \/ ReadHeader_note
    \/ ReadHeader_groups
    \/ ReadHeader_group
    \/ ReadHeader_channel
    \/ ReadHeader_return
    \/ ReadFile_setup
    \/ ReadFile_block
    \/ ReadFile_return
    \/ GetRecordingData

SpecDecoder == DecoderInit /\ [][DecoderNext]_vars

----------------------------------------------------------------------------
(* The command client: RHX_TCPClient of src/TCP.py and src/utils/TCP.py.    *)

\* Largest number of send_command and close calls made on one client.
MaxCalls == 4

\* A command string, in its parts: "set a-003.stimenabled true" is
\* Cmd("stimenabled", 3, "true"); a command without a channel has ch = -1.
Cmd(name, ch, arg) == [name |-> name, ch |-> ch, arg |-> arg]

\* What a command asks of the board.
Board_apply(b, cmd) ==
    [last |-> cmd,
     count |-> b.count + 1,
     runmode |-> IF cmd.name = "runmode" THEN cmd.arg ELSE b.runmode,
     enabled |-> IF cmd.name = "stimenabled"
                 THEN (IF cmd.arg = "true" THEN b.enabled \cup {cmd.ch}
                       ELSE b.enabled \ {cmd.ch})
                 ELSE b.enabled,
     log |-> IF cmd.ch = -1 THEN Append(b.log, <<cmd.name, cmd.arg>>) ELSE b.log,
     recording |-> IF cmd.name = "recordingenabled" /\ cmd.arg = "true"
                   THEN b.recording \cup {cmd.ch} ELSE b.recording]

\* What sock.connect and sock.sendall can end with.
SocketOutcomes == {"ok", "OSError", "timeout"}

\* `except Exception as e`: the errors of the socket are caught.
caught_bad(e) == FALSE
caught(e) == e \in {"OSError", "timeout"}

\* __init__ and connect: a socket is made; if connecting fails the error is
\* printed and self.sock becomes None.
Client_new(outcome) ==
    /\ sock' = IF outcome = "ok" THEN "open"
               ELSE IF caught(outcome) THEN "None" ELSE "unconnected"
    /\ open_conns' = IF outcome = "ok" THEN open_conns + 1 ELSE open_conns
    /\ raised' = IF outcome = "ok" \/ caught(outcome) THEN raised ELSE outcome

\* send_command(command): nothing without a socket; otherwise sendall, whose
\* error (always one on a closed socket) is printed.
SendCommand(cmd, outcome) ==
    LET e == IF sock = "open" THEN outcome ELSE "OSError" IN
    /\ board' = Board_apply(board, cmd)
    /\ sock' = sock
    /\ open_conns' = open_conns
    /\ IF sock = "None"
       THEN sent' = sent /\ raised' = raised
       ELSE IF e = "ok"
       THEN sent' = sent + 1 /\ raised' = raised
       ELSE sent' = sent /\ raised' = IF caught(e) THEN raised ELSE e

\* close(): closes the socket if there is one (closing twice is harmless).
Client_close ==
    /\ sock' = IF sock = "None" THEN "None" ELSE "closed"
    /\ open_conns' = IF sock = "open" THEN open_conns - 1 ELSE open_conns

\* The commands a caller of the bare client sends.
ClientCommands ==
    { Cmd("stimenabled", 1, "true"), Cmd("uploadstimparameters", -1, ""),
      Cmd("runmode", -1, "run") }

\* client = RHX_TCPClient(host=..., port=...).
RHX_TCPClient_init ==
    /\ spc = "new"
    /\ \E outcome \in SocketOutcomes : Client_new(outcome)
    /\ spc' = "calls"
    /\ UNCHANGED <<sent, board, locals, loop, evars, dvars>>

\* client.send_command(command).
RHX_TCPClient_send_command ==
    /\ spc = "calls"
    /\ raised = ""
    /\ locals.i < MaxCalls
    /\ \E cmd \in ClientCommands, outcome \in SocketOutcomes :
          SendCommand(cmd, outcome)
    /\ locals' = [locals EXCEPT !.i = @ + 1]
    /\ UNCHANGED <<spc, loop, evars, dvars>>

\* client.close().
RHX_TCPClient_close ==
    /\ spc = "calls"
    /\ raised = ""
    /\ locals.i < MaxCalls
    /\ Client_close
    /\ locals' = [locals EXCEPT !.i = @ + 1]
    /\ UNCHANGED <<sent, board, raised, spc, loop, evars, dvars>>

\* The engine and the decoder are not running.
OthersOff ==
    /\ engine = "BOModel"
    /\ ti_channels = 1..4
    /\ time_decay = <<1, 1>>
    /\ params_history = <<>>
    /\ results_history = <<>>
    /\ time_stamps = <<>>
    /\ optimizer = Optimizer_new
    /\ pc = "idle"
    /\ suggestion = NoSuggestion
    /\ out = [op |-> "init", val |-> None]
    /\ observed = <<>>
    /\ last_best = NoBest
    /\ DecoderOff

ScriptInit(start) ==
    /\ OthersOff
    /\ sock = "unset"
    /\ open_conns = 0
    /\ sent = 0
    /\ board = NoBoard
    /\ spc = start
    /\ locals = NoLocals
    /\ raised = ""
    /\ loop = NoLoop

ClientInit == ScriptInit("new")

ClientNext ==
    \/ RHX_TCPClient_init
    \/ RHX_TCPClient_send_command
    \/ RHX_TCPClient_close

\* A caller that makes a client and calls send_command and close on it in
\* any order.
SpecClient == ClientInit /\ [][ClientNext]_vars

----------------------------------------------------------------------------
(* A recording session: RHX_TCPClient.recording of src/utils/TCP.py, as     *)
(* src/utils/read.py and src/utils/recording.py call it.                    *)

\* for i in range(128): the channels a-000 .. a-127.
NumRecordingChannels == 128

\* The commands of lines 68-92, in order; the path and the base filename
\* are made from the time of the call.
RecordingSettings_bad ==
    << Cmd("filename.path", -1, "data_dir"),
       Cmd("clearalldataoutputs", -1, ""),
       Cmd("filename.basefilename", -1, "base_filename"),
       Cmd("createnewdirectory", -1, "true"),
       Cmd("fileformat", -1, "Traditional"),
       Cmd("savewidebandamplifierwaveforms", -1, "true") >>

RecordingSettings ==
    << Cmd("clearalldataoutputs", -1, ""),
       Cmd("filename.path", -1, "data_dir"),
       Cmd("filename.basefilename", -1, "base_filename"),
       Cmd("createnewdirectory", -1, "true"),
       Cmd("fileformat", -1, "Traditional"),
       Cmd("savewidebandamplifierwaveforms", -1, "true") >>

\* client = RHX_TCPClient(host='127.0.0.1', port=5000).
Recording_client ==
    /\ spc = "rec_new"
    /\ \E outcome \in SocketOutcomes : Client_new(outcome)
    /\ spc' = "rec_stop"
    /\ UNCHANGED <<sent, board, locals, loop, evars, dvars>>

\* Line 56: stop the board.
Recording_stop ==
    /\ spc = "rec_stop"
    /\ SendCommand(Cmd("runmode", -1, "stop"), "ok")
    /\ spc' = "rec_makedirs"
    /\ UNCHANGED <<locals, loop, evars, dvars>>

\* Lines 60-65: make the data directory; os.makedirs may fail, and its
\* error leaves the call.
Recording_makedirs ==
    /\ spc = "rec_makedirs"
    /\ \E made \in BOOLEAN :
          IF made
          THEN spc' = "rec_settings" /\ raised' = raised
          ELSE spc' = "rec_failed" /\ raised' = "OSError"
    /\ locals' = [locals EXCEPT !.i = 1]
    /\ UNCHANGED <<sock, open_conns, sent, board, loop, evars, dvars>>

\* Lines 68-93: one of the settings.
Recording_setting ==
    /\ spc = "rec_settings"
    /\ SendCommand(RecordingSettings[locals.i], "ok")
    /\ IF locals.i = Len(RecordingSettings)
       THEN spc' = "rec_channels" /\ locals' = [locals EXCEPT !.i = 0]
       ELSE spc' = spc /\ locals' = [locals EXCEPT !.i = @ + 1]
    /\ UNCHANGED <<loop, evars, dvars>>

\* Lines 97-99: one pass of the loop over the channels.
Recording_enable ==
    /\ spc = "rec_channels"
    /\ locals.i < NumRecordingChannels
    /\ SendCommand(Cmd("recordingenabled", locals.i, "true"), "ok")
    /\ locals' = [locals EXCEPT !.i = @ + 1]
    /\ UNCHANGED <<spc, loop, evars, dvars>>

\* Line 103: start recording.
Recording_record ==
    /\ spc = "rec_channels"
    /\ locals.i >= NumRecordingChannels
    /\ SendCommand(Cmd("runmode", -1, "record"), "ok")
    /\ spc' = "rec_wait"
    /\ UNCHANGED <<locals, loop, evars, dvars>>

\* Lines 107-110: after record_time, stop recording.
Recording_stop_recording ==
    /\ spc = "rec_wait"
    /\ SendCommand(Cmd("runmode", -1, "stop"), "ok")
    /\ spc' = "rec_close"
    /\ UNCHANGED <<locals, loop, evars, dvars>>

\* client.close() in the calling script.
Recording_close ==
    /\ spc = "rec_close"
    /\ Client_close
    /\ spc' = "rec_done"
    /\ UNCHANGED <<sent, board, raised, locals, loop, evars, dvars>>

RecordingInit == ScriptInit("rec_new")

RecordingNext ==
    \/ Recording_client
    \/ Recording_stop
    \/ Recording_makedirs
    \/ Recording_setting
    \/ Recording_enable
    \/ Recording_record
    \/ Recording_stop_recording
    \/ Recording_close

SpecRecording == RecordingInit /\ [][RecordingNext]_vars

\* The script is sequential code: it takes its next step.
FairRecording == SpecRecording /\ WF_vars(RecordingNext)

----------------------------------------------------------------------------
(* Properties *)

\* ParameterSpace.is_valid for the dict `a`: every channel is taken from the
\* channel list, the four channels are pairwise distinct, and both
\* amplitudes lie within the inclusive amplitude bounds.
IsValid(a, chs) ==
    /\ {a.channel_a, a.channel_b, a.return_channel_a, a.return_channel_b} \subseteq chs
    /\ a.channel_a # a.channel_b
    /\ a.channel_a # a.return_channel_a
    /\ a.channel_a # a.return_channel_b
    /\ a.channel_b # a.return_channel_a
    /\ a.channel_b # a.return_channel_b
    /\ a.return_channel_a # a.return_channel_b
    /\ a.amplitude_a \in AmpLow..AmpHigh
    /\ a.amplitude_b \in AmpLow..AmpHigh

\* The list, in dimension order, of the dict passed to the i-th update.
ObservedList(i) ==
    <<observed[i].params.channel_a, observed[i].params.channel_b,
      observed[i].params.return_channel_a, observed[i].params.return_channel_b,
      observed[i].params.amplitude_a, observed[i].params.amplitude_b>>

\* C1: whatever was suggested and observed before, in both engines, every
\* assignment suggest_parameters returns has its four channels in the
\* channel list and pairwise distinct, and its amplitudes within the bounds.
C1_SuggestValid ==
    out.op = "suggest" => IsValid(out.val, ti_channels)

\* A suggest that returned after two observations, in the time-decayed engine.
C1_Witness ==
    /\ engine = "TVBOModel"
    /\ out.op = "suggest"
    /\ Len(observed) >= 2

\* C2: every call of suggest_parameters ends, also when the domain is large
\* enough for four distinct channels: once inside the loop it gets out of it
\* (with a valid proposal, or by giving up after a maximum number of asks).
C2_SuggestTerminates ==
    (pc = "asking" /\ Cardinality(ti_channels) >= NumChannelDims) ~> (pc = "idle")

\* C3: with fewer channels than the four channel dimensions need, a call of
\* suggest_parameters ends with the error outcome ConstraintInfeasible and
\* the observation history is as it was before the call.
C3_InfeasibleFails ==
    (pc = "asking" /\ Cardinality(ti_channels) < NumChannelDims)
        ~> (pc = "idle" /\ out.op = "ConstraintInfeasible")

\* C4: with at least one observation, best_result returns the raw reward and
\* the assignment of one single observation, and no observation has a larger
\* raw reward; the same in both engines and for every decay.
C4_BestIsRawMax ==
    (out.op = "best" /\ observed # <<>>) =>
        /\ out.val.none = FALSE
        /\ \E i \in 1..Len(observed) :
              /\ out.val.reward = observed[i].result
              /\ out.val.params = ObservedList(i)
              /\ \A j \in 1..Len(observed) : observed[j].result <= observed[i].result

\* best_result in the time-decayed engine, after three observations of which
\* an older one has the largest raw reward but not the largest decayed value.
C4_Witness ==
    /\ engine = "TVBOModel"
    /\ time_decay = <<1, 2>>
    /\ out.op = "best"
    /\ Len(observed) = 3
    /\ observed[1].result = 10
    /\ observed[3].result = 2
    /\ out.val.reward = 10

\* The two states of the engine.
EngineState == IF results_history = <<>> THEN "empty" ELSE "populated"

\* C5: the engine starts empty; best_result returns (None, None) exactly in
\* the empty state; the state changes only from empty to populated and only
\* by update, whose first call populates it; and whenever no call is in
\* progress, suggest_parameters, update and best_result can be called.
C5_TwoStates ==
    /\ EngineState = "empty"
    /\ [](out.op = "best" => (out.val.none <=> EngineState = "empty"))
    /\ [](pc = "idle" =>
            /\ ENABLED (BOModel_suggest_parameters \/ TVBOModel_suggest_parameters)
            /\ ENABLED (BOModel_best \/ TVBOModel_best)
            /\ Len(results_history) < MaxObs
                  => ENABLED (BOModel_update \/ TVBOModel_update))
    /\ [][/\ EngineState = "populated" => EngineState' = "populated"
          /\ EngineState' # EngineState => out'.op = "update"
          /\ out'.op = "update" => EngineState' = "populated"]_vars

\* best_result returned a pair in the populated state.
C5_Witness ==
    /\ EngineState = "populated"
    /\ out.op = "best"
    /\ out.val.none = FALSE

\* C6: the histories have one entry per update call, in call order: entry n
\* (counted from 0) is the assignment and reward of the n-th call, and the
\* index recorded with it by the time-decayed engine is n.
C6_SequenceIndex ==
    /\ Len(params_history) = Len(observed)
    /\ Len(results_history) = Len(observed)
    /\ \A i \in 1..Len(observed) :
          /\ params_history[i] = ObservedList(i)
          /\ results_history[i] = observed[i].result
    /\ engine = "TVBOModel" =>
          /\ Len(time_stamps) = Len(observed)
          /\ \A i \in 1..Len(observed) : time_stamps[i] = i - 1

\* Three updates of the time-decayed engine.
C6_Witness ==
    /\ engine = "TVBOModel"
    /\ time_stamps = <<0, 1, 2>>

\* C7: a step changes the histories only if it is an update, which appends
\* one entry (the raw reward it was given) and leaves the earlier entries as
\* they were; suggest_parameters and best_result leave them unchanged.
C7_HistoryGrowsByUpdate ==
    [][LET n == Len(results_history) IN
       /\ out'.op # "update" => UNCHANGED <<params_history, results_history>>
       /\ out'.op = "update" =>
             /\ Len(results_history') = n + 1
             /\ Len(params_history') = Len(params_history) + 1
             /\ SubSeq(results_history', 1, n) = results_history
             /\ SubSeq(params_history', 1, n) = params_history
             /\ results_history'[n + 1] = observed'[n + 1].result]_vars

\* An update of the time-decayed engine with a decay below 1 on a history
\* that holds two entries already.
C7_Witness ==
    /\ engine = "TVBOModel"
    /\ time_decay = <<1, 2>>
    /\ out.op = "update"
    /\ Len(results_history) = 3

\* C8: in the direct engine the surrogate has been told once per update: the
\* i-th point told is the i-th assignment in dimension order, with the
\* negated reward.
C8_DirectTell ==
    engine = "BOModel" =>
        /\ Len(optimizer.Xi) = Len(observed)
        /\ Len(optimizer.yi) = Len(observed)
        /\ \A i \in 1..Len(observed) :
              /\ optimizer.Xi[i] = ObservedList(i)
              /\ optimizer.yi[i] = -observed[i].result

\* Two updates of the direct engine with different assignments and rewards.
C8_Witness ==
    /\ engine = "BOModel"
    /\ Len(observed) = 2
    /\ observed[1].params # observed[2].params
    /\ observed[1].result = 10
    /\ observed[2].result = -1

\* The values the latest update told the surrogate: the last Len(observed)
\* entries of what the surrogate has been told.
LastTold(t) == optimizer.yi[Len(optimizer.yi) - Len(observed) + t + 1]
LastToldPoint(t) == optimizer.Xi[Len(optimizer.Xi) - Len(observed) + t + 1]

\* C9: in the time-decayed engine, the update that records index c tells the
\* surrogate, for every observation t in 0..c, the value
\* -reward_t * decay^(c - t) at that observation's assignment.
C9_DecayedValues ==
    (engine = "TVBOModel" /\ observed # <<>>) =>
        LET c == Len(observed) - 1 IN
        /\ Len(optimizer.yi) >= c + 1
        /\ \A t \in 0..c :
              /\ RatEq(LastTold(t),
                       <<(-observed[t + 1].result) * Pow(time_decay[1], c - t),
                         Pow(time_decay[2], c - t)>>)
              /\ LastToldPoint(t) = ObservedList(t + 1)

\* Decay 0.5 and rewards 10, 10, 10: the third update tells -2.5, -5, -10.
C9_Witness ==
    /\ engine = "TVBOModel"
    /\ time_decay = <<1, 2>>
    /\ Len(observed) = 3
    /\ \A i \in 1..3 : observed[i].result = 10
    /\ RatEq(LastTold(0), <<-5, 2>>)
    /\ RatEq(LastTold(1), <<-5, 1>>)
    /\ RatEq(LastTold(2), <<-10, 1>>)

\* C10: in the time-decayed engine the surrogate's data consists, after the
\* n-th update, of exactly n points: nothing told by an earlier update is
\* still in it.
C10_SurrogateRefitFromScratch ==
    engine = "TVBOModel" =>
        /\ Len(optimizer.Xi) = Len(observed)
        /\ Len(optimizer.yi) = Len(observed)

\* Two results of best_result are the same result.
SameBest(a, b) ==
    /\ a.none = b.none
    /\ ~a.none => (a.reward = b.reward /\ a.params = b.params)

\* C11: a call of best_result returns what the previous call of best_result
\* returned, when no update came between the two (calls of
\* suggest_parameters may have), in the empty and in the populated state.
C11_BestIdempotent ==
    [][(out'.op = "best" /\ last_best.set) => SameBest(out'.val, last_best.val)]_vars

\* best_result called again, after two observations with different rewards.
C11_Witness ==
    /\ out.op = "best"
    /\ last_best.again
    /\ Len(observed) = 2
    /\ observed[1].result # observed[2].result

----------------------------------------------------------------------------
(* Properties of the decoder *)

\* read_header has returned a header.
HeaderReturned == dpc \in {"setup", "block", "decoded", "done"}

\* C12: for a well-formed header, the channel list read_header returns holds
\* exactly the channels that are enabled and of signal type 0 (amplifier),
\* in the order of the file (group by group, channel by channel), and
\* num_amplifier_channels is the length of that list.
C12_AmplifierChannelsOnly ==
    (file.kind = "whole" /\ HeaderReturned) =>
        /\ header.amplifier_channels = file.truth
        /\ header.num_amplifier_channels = Len(header.amplifier_channels)
        /\ \A i \in 1..Len(header.amplifier_channels) :
              header.amplifier_channels[i].signal_type = 0

\* A variant-A header returned with two channels kept out of four written.
C12_Witness ==
    /\ file.kind = "whole"
    /\ file.ext = "rhd"
    /\ dpc = "setup"
    /\ Len(file.truth) = 2
    /\ header.num_amplifier_channels = 2

\* C13: the bytes the loop consumes for one block (the timestamps it skips,
\* 4 per sample; the amplifier samples it reads, 2 per sample and channel;
\* the bytes it skips afterwards) are the bytes_per_block the blocks were
\* counted with, with samples_per_block the header's (60 or 128), and so
\* the cursor sits on a block boundary after every pass.
C13_BlockBytesConsumed ==
    dpc = "block" =>
        /\ todo.bytes_per_block =
              4 * header.num_samples_per_data_block
                + 2 * header.num_samples_per_data_block * header.num_amplifier_channels
                + rhs_skip_after_amplifier(header)
        /\ fid_pos = header.data_start_byte + todo.done * todo.bytes_per_block

\* C14: on a file with a complete header, whose sample blocks may stop in
\* the middle of a block, read_intan_rhs_file raises nothing, never has its
\* cursor beyond the end of the file in the loop, and returns a matrix of
\* num_amplifier_channels rows and floor((total_file_size - data_start_byte)
\* / bytes_per_block) * samples_per_block columns.
C14_PartialBlockDropped ==
    file.kind = "whole" =>
        /\ ~(dout.status = "raised" /\ dout.at = "read_intan_rhs_file")
        /\ dpc = "block" => fid_pos <= FileSize(file)
        /\ dpc \in {"decoded", "done"} =>
             LET c == header.num_amplifier_channels
                 n == (header.total_file_size - header.data_start_byte)
                        \div (128 * 4 + 3 * (128 * 2 * c) + 2 * (128 * 2 * 2))
             IN /\ amplifier_data.shape = <<c, n * header.num_samples_per_data_block>>
                /\ Len(amplifier_data.rows) = c
                /\ \A r \in 1..c :
                      Len(amplifier_data.rows[r]) = n * header.num_samples_per_data_block

\* A variant-B file of two whole blocks and most of a third, decoded.
C14_Witness ==
    /\ file.kind = "whole"
    /\ file.ext = "rhs"
    /\ file.data.extra > 1
    /\ dpc = "decoded"
    /\ todo.blocks = 2
    /\ amplifier_data.shape = <<2, 256>>

\* C15: a file written as a well-formed header and N whole blocks of known
\* samples decodes to the matrix of those samples: as many rows as
\* channels, N * samples_per_block columns, and in row c at column
\* b * samples_per_block + s, sample s of channel c of block b.
C15_RoundTrip ==
    (file.kind = "whole" /\ file.data.extra = 0 /\ dpc = "decoded") =>
        /\ amplifier_data.shape = <<file.data.chans, file.data.blocks * file.data.spb>>
        /\ \A c \in 0..(file.data.chans - 1), b \in 0..(file.data.blocks - 1),
              s \in 0..(file.data.spb - 1) :
                amplifier_data.rows[c + 1][b * file.data.spb + s + 1]
                    = SampleValue(file.data, b, c, s)

\* read_header has failed on the magic number.
BadMagic ==
    /\ dout.status = "raised"
    /\ dout.at = "read_header"
    /\ dout.exc = "ValueError: Unrecognized file type magic number."

\* C16 (as the code has it): read_header fails on the magic number exactly
\* when the first 4 bytes are there and differ from the magic number of the
\* variant that the extension of the file name gives; that failure leaves
\* the cursor behind the magic number and no header is returned.
C16_MagicOfTheExtension ==
    (dpc \notin {"off", "start", "magic"}) =>
        /\ BadMagic <=>
             /\ file.ext \in {"rhd", "rhs"}
             /\ Len(Read(file, 0, 4)) = 4
             /\ U32(Read(file, 0, 4)) # (IF file.ext = "rhd" THEN MagicRHD ELSE MagicRHS)
        /\ BadMagic => (fid_pos = 4 /\ dpc = "failed")

\* A file named .rhs that starts with the magic number of variant A, refused.
C16_Witness ==
    /\ BadMagic
    /\ file.ext = "rhs"
    /\ U32(Read(file, 0, 4)) = MagicRHD

\* C16 (as stated): on a file with a known extension and 4 bytes or more,
\* read_header fails on the magic number exactly when the first 4 bytes are
\* neither 0xc6912702 nor 0xd69127ac.
C16_NeitherMagic ==
    (/\ dpc \notin {"off", "start", "magic"}
     /\ file.ext \in {"rhd", "rhs"}
     /\ Len(Read(file, 0, 4)) = 4) =>
        (BadMagic <=> U32(Read(file, 0, 4)) \notin {MagicRHD, MagicRHS})

\* C17: on a file that ends inside the header, read_header ends with the
\* one error of a short read and returns no header.
C17_TruncatedHeaderFails ==
    (file.kind = "cut" /\ dpc \in {"failed", "setup", "block", "decoded", "done"}) =>
        /\ dpc = "failed"
        /\ dout.at = "read_header"
        /\ dout.exc = "struct.error"

\* C18: when a call of the decoder has returned or failed, no file it opened
\* is open.
C18_HandlesClosed ==
    dpc \in {"failed", "setup", "decoded", "done"} => open_fids = {}

\* C19 (as the code has it): _read_qstring takes the length field as a count
\* of bytes: for a field L other than 0xFFFFFFFF it returns floor(L / 2) code
\* units and leaves the cursor 4 + 2 * floor(L / 2) bytes on; for 0xFFFFFFFF
\* it returns the empty string and leaves the cursor 4 bytes on.
C19_LengthInBytes ==
    todo.qs.ok =>
        IF todo.qs.field = QStringNull
        THEN /\ todo.qs.str = <<>>
             /\ todo.qs.pos = todo.qs.start + 4
        ELSE /\ Len(todo.qs.str) = todo.qs.field[1] * 32768 + todo.qs.field[2] \div 2
             /\ todo.qs.pos = todo.qs.start + 4 + 2 * Len(todo.qs.str)

\* A string with a length field of 3 read as one code unit.
C19_Witness ==
    /\ todo.qs.ok
    /\ todo.qs.field = <<0, 3>>
    /\ Len(todo.qs.str) = 1
    /\ todo.qs.pos = todo.qs.start + 6

\* C19 (as stated): for a length field L other than 0xFFFFFFFF the string
\* returned has L code units and the cursor is 4 + 2 * L bytes on.
C19_LengthInUnits ==
    (todo.qs.ok /\ todo.qs.field # QStringNull /\ todo.qs.field[1] = 0) =>
        /\ Len(todo.qs.str) = todo.qs.field[2]
        /\ todo.qs.pos = todo.qs.start + 4 + 2 * todo.qs.field[2]

\* C20: get_recording_data hands on exactly 128 values whatever the number
\* of channels and of whole blocks in the file: the last sample of each of
\* the first 128 channels, in the order of the file, then zeros.
C20_AlwaysChannelLimit ==
    (file.kind = "whole" /\ dpc = "done") =>
        /\ dout.status = "recording"
        /\ Len(dout.val) = ChannelLimit
        /\ \A c \in 1..ChannelLimit :
              dout.val[c] = IF c <= amplifier_data.shape[1]
                            THEN amplifier_data.rows[c][amplifier_data.shape[2]]
                            ELSE 0

----------------------------------------------------------------------------
(* Properties of best_result under ties *)

\* The earliest of the first k observations with the largest reward of them.
EarliestMax(k) ==
    CHOOSE i \in 1..k :
        /\ \A j \in 1..k : observed[j].result <= observed[i].result
        /\ \A j \in 1..(i - 1) : observed[j].result < observed[i].result

\* C30: best_result returns the earliest of the observations that share the
\* largest raw reward; so after an update whose reward is not strictly
\* greater than every earlier reward it returns what it returned before that
\* update, and after one whose reward is strictly greater, the new
\* observation.
C30_EarliestOfTies ==
    (out.op = "best" /\ observed # <<>>) =>
        LET n == Len(observed)
            rises == \A j \in 1..(n - 1) : observed[j].result < observed[n].result
        IN /\ out.val.none = FALSE
           /\ out.val.reward = observed[EarliestMax(n)].result
           /\ out.val.params = ObservedList(EarliestMax(n))
           /\ (n > 1 /\ ~rises) =>
                 /\ out.val.reward = observed[EarliestMax(n - 1)].result
                 /\ out.val.params = ObservedList(EarliestMax(n - 1))
           /\ rises => out.val.params = ObservedList(n)

\* best_result after a second and a third observation that share the largest
\* reward and differ in their assignment.
C30_Witness ==
    /\ out.op = "best"
    /\ Len(observed) = 3
    /\ observed[1].result < observed[2].result
    /\ observed[2].result = observed[3].result
    /\ observed[2].params # observed[3].params
    /\ out.val.params = ObservedList(2)

----------------------------------------------------------------------------
(* Properties of the command client *)

\* C23: the client hands no failure on to its caller, whatever the calls of
\* send_command and close and whatever the socket does; after a failed
\* connect it has no socket and no call sends anything; after a failed send
\* the socket is as it was and the next send_command can go out.
C23_NoFailurePropagates ==
    /\ [](raised = "")
    /\ [](spc = "calls" => sock \in {"None", "open", "closed"})
    /\ [][(spc = "calls" /\ sock = "None") => (sock' = "None" /\ sent' = sent)]_vars
    /\ [][(spc = "calls" /\ sent' = sent /\ board'.count # board.count)
              => sock' = sock]_vars
    /\ [](spc = "calls" /\ sock = "open" /\ locals.i < MaxCalls
              => ENABLED (RHX_TCPClient_send_command /\ sent' = sent + 1))

\* A send_command after close, and one on a client whose connect failed:
\* neither sent anything.
C23_Witness ==
    /\ spc = "calls"
    /\ board.count = 2
    /\ sent = 0
    /\ sock \in {"None", "closed"}
    /\ locals.i = 3

----------------------------------------------------------------------------
(* Properties of the recording session *)

\* The commands without a channel that a whole session issues, in order.
RecordingOrder ==
    << <<"runmode", "stop">>, <<"clearalldataoutputs", "">>,
       <<"filename.path", "data_dir">>,
       <<"filename.basefilename", "base_filename">>,
       <<"createnewdirectory", "true">>, <<"fileformat", "Traditional">>,
       <<"savewidebandamplifierwaveforms", "true">>,
       <<"runmode", "record">>, <<"runmode", "stop">> >>

----------------------------------------------------------------------------
(* The channel sweep: the script of src/Iterate.py.                        *)

\* The number of channels swept (CHANNEL_START .. CHANNEL_END is twelve
\* channels in the script) and of amplitudes (fifteen in the script).
MaxSweepChannels == 3
MaxAmplitudes == 3

CURRENT_START == 33
CURRENT_INCREMENT == 66

\* channels = [f"a-{str(i).zfill(3)}" for i in range(CHANNEL_START,
\* CHANNEL_END + 1)]: the channel a-00i is written i, and channels[i] (from
\* zero) is sweep_channels[i + 1].
sweep_channels == [i \in 1..MaxSweepChannels |-> i - 1]

\* current_values = list(range(CURRENT_START, CURRENT_END + 1,
\* CURRENT_INCREMENT)).
sweep_current_values ==
    { CURRENT_START + CURRENT_INCREMENT * (n - 1) : n \in 1..MaxAmplitudes }

\* return_channel = channels[(i + 1) % len(channels)].
return_channel_bad(i) == sweep_channels[i + 1]
return_channel_of(i) == sweep_channels[((i + 1) % Len(sweep_channels)) + 1]

\* The eight commands that configure one channel (lines 92-99, 104-111).
SweepParameters(polarity) ==
    << <<"stimenabled", "true">>, <<"shape", "monophasic">>,
       <<"polarity", polarity>>, <<"source", "KeyPressF1">>,
       <<"firstphasedurationmicroseconds", "DURATION">>,
       <<"firstphaseamplitudemicroamps", "amplitude">>,
       <<"numberofstimpulses", "1">>,
       <<"pulsetrainperiodmicroseconds", "10000">> >>

\* previous_main_channel = main_channel; previous_return_channel =
\* return_channel.
remember_bad(l) == [l EXCEPT !.previous_return_channel = l.return_channel]
remember(l) == [l EXCEPT !.previous_main_channel = l.main_channel,
                         !.previous_return_channel = l.return_channel]

NoSend == UNCHANGED <<sock, open_conns, sent, board, raised>>

\* Line 49: client = RHX_TCPClient(host="127.0.0.1", port=5000).
Sweep_client ==
    /\ spc = "sw_new"
    /\ \E outcome \in SocketOutcomes : Client_new(outcome)
    /\ spc' = "sw_logger"
    /\ UNCHANGED <<sent, board, locals, loop, evars, dvars>>

\* Lines 50-60: csv_file = create_csv_logger(OUTPUT_FOLDER), which makes a
\* folder and a file and may fail, before the try statement; then the lists
\* and previous_main_channel = previous_return_channel = None.
Sweep_create_csv_logger ==
    /\ spc = "sw_logger"
    /\ \E made \in BOOLEAN :
          IF made
          THEN /\ spc' = "sw_while"
               /\ raised' = raised
               /\ locals' = [locals EXCEPT !.current_values = sweep_current_values]
          ELSE /\ spc' = "sw_failed"
               /\ raised' = "OSError"
               /\ locals' = locals
    /\ UNCHANGED <<sock, open_conns, sent, board, loop, evars, dvars>>

\* Lines 64-67: while current_values: amplitude = random.choice(...);
\* current_values.remove(amplitude).
Sweep_while ==
    /\ spc = "sw_while"
    /\ IF locals.current_values = {}
       THEN /\ spc' = "sw_finally"
            /\ locals' = [locals EXCEPT !.k = 0]
       ELSE /\ spc' = "sw_for"
            /\ \E amplitude \in locals.current_values :
                  locals' = [locals EXCEPT
                                !.amplitude = amplitude,
                                !.current_values = @ \ {amplitude},
                                !.i = 0]
    /\ NoSend
    /\ UNCHANGED <<loop, evars, dvars>>

\* Lines 70-78: for i in range(len(channels)): the main and the return
\* channel; `continue` if they are the same.
Sweep_for ==
    /\ spc = "sw_for"
    /\ IF locals.i = Len(sweep_channels)
       THEN spc' = "sw_while" /\ locals' = locals
       ELSE LET main_channel == sweep_channels[locals.i + 1]
                return_channel == return_channel_of(locals.i)
            IN  IF return_channel = main_channel
                THEN /\ spc' = "sw_for"
                     /\ locals' = [locals EXCEPT
                                      !.main_channel = main_channel,
                                      !.return_channel = return_channel,
                                      !.i = @ + 1]
                ELSE /\ spc' = "sw_disable"
                     /\ locals' = [locals EXCEPT
                                      !.main_channel = main_channel,
                                      !.return_channel = return_channel,
                                      !.k = 0]
    /\ NoSend
    /\ UNCHANGED <<loop, evars, dvars>>

\* Lines 84-87: the channels of the previous stimulation are disabled.
Sweep_disable_previous ==
    /\ spc = "sw_disable"
    /\ LET previous == IF locals.k = 0 THEN locals.previous_main_channel
                       ELSE locals.previous_return_channel
       IN  IF previous # -1
           THEN SendCommand(Cmd("stimenabled", previous, "false"), "ok")
           ELSE NoSend
    /\ IF locals.k = 0
       THEN spc' = spc /\ locals' = [locals EXCEPT !.k = 1]
       ELSE spc' = "sw_main" /\ locals' = [locals EXCEPT !.k = 1]
    /\ UNCHANGED <<loop, evars, dvars>>

\* Lines 92-99: the main (positive) channel is configured.
Sweep_configure_main ==
    /\ spc = "sw_main"
    /\ LET p == SweepParameters("PositiveFirst")[locals.k]
       IN  SendCommand(Cmd(p[1], locals.main_channel, p[2]), "ok")
    /\ IF locals.k = Len(SweepParameters("PositiveFirst"))
       THEN spc' = "sw_return" /\ locals' = [locals EXCEPT !.k = 1]
       ELSE spc' = spc /\ locals' = [locals EXCEPT !.k = @ + 1]
    /\ UNCHANGED <<loop, evars, dvars>>

\* Lines 104-111: the return (negative) channel is configured.
Sweep_configure_return ==
    /\ spc = "sw_return"
    /\ LET p == SweepParameters("NegativeFirst")[locals.k]
       IN  SendCommand(Cmd(p[1], locals.return_channel, p[2]), "ok")
    /\ IF locals.k = Len(SweepParameters("NegativeFirst"))
       THEN spc' = "sw_upload" /\ locals' = [locals EXCEPT !.k = 0]
       ELSE spc' = spc /\ locals' = [locals EXCEPT !.k = @ + 1]
    /\ UNCHANGED <<loop, evars, dvars>>

\* Line 114: execute uploadstimparameters.
Sweep_upload ==
    /\ spc = "sw_upload"
    /\ SendCommand(Cmd("uploadstimparameters", -1, ""), "ok")
    /\ spc' = "sw_run"
    /\ UNCHANGED <<locals, loop, evars, dvars>>

\* Line 115: set runmode run.
Sweep_run ==
    /\ spc = "sw_run"
    /\ SendCommand(Cmd("runmode", -1, "run"), "ok")
    /\ spc' = "sw_trigger"
    /\ UNCHANGED <<locals, loop, evars, dvars>>

\* Line 118: execute manualstimtriggerpulse F1.
Sweep_trigger ==
    /\ spc = "sw_trigger"
    /\ SendCommand(Cmd("manualstimtriggerpulse", -1, "F1"), "ok")
    /\ spc' = "sw_log"
    /\ UNCHANGED <<locals, loop, evars, dvars>>

\* Lines 121-124: the stimulation is logged, then time.sleep(STIMULATION_TIME).
Sweep_log_to_csv ==
    /\ spc = "sw_log"
    /\ locals' = [locals EXCEPT
                     !.picks = Append(@, <<locals.amplitude, locals.main_channel,
                                           locals.return_channel>>)]
    /\ spc' = "sw_stop"
    /\ NoSend
    /\ UNCHANGED <<loop, evars, dvars>>

\* Line 127: set runmode stop.
Sweep_stop ==
    /\ spc = "sw_stop"
    /\ SendCommand(Cmd("runmode", -1, "stop"), "ok")
    /\ spc' = "sw_remember"
    /\ UNCHANGED <<locals, loop, evars, dvars>>

\* Lines 130-134: the channels are remembered for the next pass; a short
\* pause; the next channel.
Sweep_remember ==
    /\ spc = "sw_remember"
    /\ locals' = [remember(locals) EXCEPT !.i = @ + 1]
    /\ spc' = "sw_for"
    /\ NoSend
    /\ UNCHANGED <<loop, evars, dvars>>

\* The positions inside the try statement (lines 62-134).
SweepTry ==
    {"sw_while", "sw_for", "sw_disable", "sw_main", "sw_return", "sw_upload",
     "sw_run", "sw_trigger", "sw_log", "sw_stop", "sw_remember"}

\* Lines 136-137: the user presses Ctrl-C somewhere inside the try statement;
\* the handler prints a message.
Sweep_KeyboardInterrupt ==
    /\ spc \in SweepTry
    /\ ~locals.interrupted
    /\ spc' = "sw_finally"
    /\ locals' = [locals EXCEPT !.k = 0, !.interrupted = TRUE]
    /\ NoSend
    /\ UNCHANGED <<loop, evars, dvars>>

\* Lines 138-144: finally: the remembered channels are disabled and the
\* connection is closed.
Sweep_finally ==
    /\ spc = "sw_finally"
    /\ IF locals.k < 2
       THEN /\ LET previous == IF locals.k = 0
                               THEN locals.previous_main_channel
                               ELSE locals.previous_return_channel
               IN  IF previous # -1
                   THEN SendCommand(Cmd("stimenabled", previous, "false"), "ok")
                   ELSE NoSend
            /\ spc' = spc
            /\ locals' = [locals EXCEPT !.k = @ + 1]
       ELSE /\ Client_close
            /\ spc' = "sw_done"
            /\ UNCHANGED <<sent, board, raised, locals>>
    /\ UNCHANGED <<loop, evars, dvars>>

SweepInit == ScriptInit("sw_new")

SweepNext ==
    \/ Sweep_client
    \/ Sweep_create_csv_logger
    \/ Sweep_while
    \/ Sweep_for
    \/ Sweep_disable_previous
    \/ Sweep_configure_main
    \/ Sweep_configure_return
    \/ Sweep_upload
    \/ Sweep_run
    \/ Sweep_trigger
    \/ Sweep_log_to_csv
    \/ Sweep_stop
    \/ Sweep_remember
    \/ Sweep_KeyboardInterrupt
    \/ Sweep_finally

SpecSweep == SweepInit /\ [][SweepNext]_vars

\* The script's own steps are taken (the sleeps return); Ctrl-C may or may
\* not come.
SweepSteps ==
    \/ Sweep_client
    \/ Sweep_create_csv_logger
    \/ Sweep_while
    \/ Sweep_for
    \/ Sweep_disable_previous
    \/ Sweep_configure_main
    \/ Sweep_configure_return
    \/ Sweep_upload
    \/ Sweep_run
    \/ Sweep_trigger
    \/ Sweep_log_to_csv
    \/ Sweep_stop
    \/ Sweep_remember
    \/ Sweep_finally

FairSweep == SpecSweep /\ WF_vars(SweepSteps)

----------------------------------------------------------------------------
(* Properties of the channel sweep *)

IsTrigger(c) == c[1] = "manualstimtriggerpulse"

\* C26: a sweep that is not interrupted ends, after exactly
\* |amplitudes| * |channels| stimulations; every amplitude is picked exactly
\* once, in some order, and under each amplitude every channel is the main
\* channel exactly once, in channel order, with the next channel (wrapping
\* around) as its return channel.
C26_SweepCoversAll ==
    /\ [](spc = "sw_done" /\ ~locals.interrupted =>
            LET n == Len(sweep_channels)
                picks == locals.picks
            IN  /\ Len(picks) = Cardinality(sweep_current_values) * n
                /\ Len(SelectSeq(board.log, IsTrigger)) = Len(picks)
                /\ locals.current_values = {}
                /\ \A a \in sweep_current_values :
                      Cardinality({b \in 0..(MaxAmplitudes - 1) :
                                      picks[b * n + 1][1] = a}) = 1
                /\ \A j \in 1..Len(picks) :
                      /\ picks[j][1] = picks[((j - 1) \div n) * n + 1][1]
                      /\ picks[j][2] = sweep_channels[((j - 1) % n) + 1]
                      /\ picks[j][3] = sweep_channels[(j % n) + 1])
    /\ <>(spc \in {"sw_done", "sw_failed"})

\* A whole sweep that began with the largest amplitude.
C26_Witness ==
    /\ spc = "sw_done"
    /\ ~locals.interrupted
    /\ sock = "closed"
    /\ Len(locals.picks) = MaxAmplitudes * MaxSweepChannels
    /\ locals.picks[1][1] = CURRENT_START + CURRENT_INCREMENT * (MaxAmplitudes - 1)

\* C27: at every trigger of the sweep exactly two channels are
\* stim-enabled, the current main channel and the current return channel,
\* which are different; every channel enabled earlier and not in use now has
\* been disabled.
C27_TwoChannelsAtTrigger ==
    spc \in {"sw_trigger", "sw_log"} =>
        /\ spc = "sw_log" => board.last = Cmd("manualstimtriggerpulse", -1, "F1")
        /\ board.enabled = {locals.main_channel, locals.return_channel}
        /\ locals.main_channel # locals.return_channel
        /\ Cardinality(board.enabled) = 2

\* A trigger under the second amplitude, the return channel wrapped around.
C27_Witness ==
    /\ spc = "sw_log"
    /\ Len(locals.picks) = 2 * MaxSweepChannels - 1
    /\ locals.return_channel = 0
    /\ board.enabled = {0, MaxSweepChannels - 1}

\* C25: however the sweep ends, no channel is left stim-enabled when the
\* connection is closed.
C25_NoChannelLeftEnabled ==
    spc = "sw_done" => board.enabled = {}

----------------------------------------------------------------------------
(* The stimulation routine: run_ti_dipole_stimulation of src/utils/TI.py,  *)
(* called once per iteration by the loop of src/TI_dipole_model.py.        *)

\* The number of iterations of the experiment loop explored (MAX_ITERATIONS
\* is 20 in the script).
MaxIterations == 2

\* [channel_a, channel_b, return_channel_a, return_channel_b] of a call:
\* four distinct channels, as suggest_parameters returns them.
StimulationArgs == { t \in ChannelTuples : BOModel_distinct(t) }

\* configure_channel (lines 83-95): the eleven commands for one channel.
TIParameters(polarity) ==
    << <<"stimenabled", "true">>, <<"shape", "biphasic">>,
       <<"polarity", polarity>>, <<"source", "KeyPressF1">>,
       <<"firstphasedurationmicroseconds", "phase_duration_us">>,
       <<"secondphasedurationmicroseconds", "phase_duration_us">>,
       <<"interphasedelaymicroseconds", "interphase_delay_us">>,
       <<"firstphaseamplitudemicroamps", "amplitude_ua">>,
       <<"secondphaseamplitudemicroamps", "amplitude_ua">>,
       <<"numberofstimpulses", "255">>,
       <<"pulsetrainperiodmicroseconds", "period_us">> >>

\* Lines 109-114: the source channels get PositiveFirst, the return
\* channels NegativeFirst.
TIPolarity(n) == IF n <= 2 THEN "PositiveFirst" ELSE "NegativeFirst"

\* The loop calls run_ti_dipole_stimulation(channel_a, channel_b,
\* return_channel_a, return_channel_b, amplitude_a, amplitude_b)
\* (TI_dipole_model.py:96-103).  The counters of commands start again with
\* the call; what the board was last asked to do stays.
TI_enter(args) ==
    /\ spc = "ti_idle"
    /\ raised = ""
    /\ locals.i < MaxIterations
    /\ locals' = [locals EXCEPT !.args = args, !.i = @ + 1, !.k = 0,
                                !.interrupted = FALSE]
    /\ board' = [board EXCEPT !.last = NoCommand, !.count = 0, !.log = <<>>]
    /\ sent' = 0
    /\ spc' = "ti_client"
    /\ UNCHANGED <<sock, open_conns, raised>>

TI_call ==
    /\ \E args \in StimulationArgs : TI_enter(args)
    /\ UNCHANGED <<loop, evars, dvars>>

\* Line 100: client = RHX_TCPClient(host=HOST, port=PORT).
TI_client ==
    /\ spc = "ti_client"
    /\ \E outcome \in SocketOutcomes : Client_new(outcome)
    /\ spc' = "ti_logger"
    /\ UNCHANGED <<sent, board, locals, loop, evars, dvars>>

\* Line 101: csv_file = create_csv_logger(OUTPUT_FOLDER), before the try
\* statement: makedirs or open may fail, and the error leaves the function.
TI_create_csv_logger ==
    /\ spc = "ti_logger"
    /\ \E made \in BOOLEAN :
          IF made
          THEN spc' = "ti_disable" /\ raised' = raised
          ELSE spc' = "ti_left" /\ raised' = "OSError"
    /\ locals' = [locals EXCEPT !.k = 1]
    /\ UNCHANGED <<sock, open_conns, sent, board, loop, evars, dvars>>

\* Lines 105-106: the four channels are disabled before configuring.
TI_disable_all ==
    /\ spc = "ti_disable"
    /\ SendCommand(Cmd("stimenabled", locals.args[locals.k], "false"), "ok")
    /\ IF locals.k = Len(locals.args)
       THEN spc' = "ti_configure" /\ locals' = [locals EXCEPT !.k = 0]
       ELSE spc' = spc /\ locals' = [locals EXCEPT !.k = @ + 1]
    /\ UNCHANGED <<loop, evars, dvars>>

\* Lines 109-114: configure_channel for channel_a, channel_b,
\* return_channel_a, return_channel_b; locals.k counts the commands.
TI_configure_channel ==
    /\ spc = "ti_configure"
    /\ LET n == (locals.k \div Len(TIParameters(""))) + 1
           p == TIParameters(TIPolarity(n))[(locals.k % Len(TIParameters(""))) + 1]
       IN  SendCommand(Cmd(p[1], locals.args[n], p[2]), "ok")
    /\ IF locals.k + 1 = Len(locals.args) * Len(TIParameters(""))
       THEN spc' = "ti_upload" /\ locals' = [locals EXCEPT !.k = 0]
       ELSE spc' = spc /\ locals' = [locals EXCEPT !.k = @ + 1]
    /\ UNCHANGED <<loop, evars, dvars>>

\* Lines 117-123: execute uploadstimparameters, then the four log lines.
TI_upload ==
    /\ spc = "ti_upload"
    /\ SendCommand(Cmd("uploadstimparameters", -1, ""), "ok")
    /\ spc' = "ti_run"
    /\ UNCHANGED <<locals, loop, evars, dvars>>

\* Line 126: set runmode run.
TI_run ==
    /\ spc = "ti_run"
    /\ SendCommand(Cmd("runmode", -1, "run"), "ok")
    /\ spc' = "ti_trigger"
    /\ UNCHANGED <<locals, loop, evars, dvars>>

\* Lines 129-136: execute manualstimtriggerpulse F1, then
\* time.sleep(STIMULATION_TIME).
TI_trigger ==
    /\ spc = "ti_trigger"
    /\ SendCommand(Cmd("manualstimtriggerpulse", -1, "F1"), "ok")
    /\ spc' = "ti_stop"
    /\ UNCHANGED <<locals, loop, evars, dvars>>

\* Line 139: set runmode stop.
TI_stop ==
    /\ spc = "ti_stop"
    /\ SendCommand(Cmd("runmode", -1, "stop"), "ok")
    /\ spc' = "ti_disable_after"
    /\ locals' = [locals EXCEPT !.k = 1]
    /\ UNCHANGED <<loop, evars, dvars>>

\* Lines 142-143: the four channels are disabled after stopping.
TI_disable_after ==
    /\ spc = "ti_disable_after"
    /\ SendCommand(Cmd("stimenabled", locals.args[locals.k], "false"), "ok")
    /\ IF locals.k = Len(locals.args)
       THEN spc' = "ti_finally" /\ locals' = [locals EXCEPT !.k = 0]
       ELSE spc' = spc /\ locals' = [locals EXCEPT !.k = @ + 1]
    /\ UNCHANGED <<loop, evars, dvars>>

\* The positions inside the try statement (lines 103-145).
TITry ==
    {"ti_disable", "ti_configure", "ti_upload", "ti_run", "ti_trigger",
     "ti_stop", "ti_disable_after"}

\* Lines 147-148: Ctrl-C somewhere inside the try statement; the handler
\* prints a message and the function goes on to its finally clause.
TI_KeyboardInterrupt ==
    /\ spc \in TITry
    /\ spc' = "ti_finally"
    /\ locals' = [locals EXCEPT !.k = 0, !.interrupted = TRUE]
    /\ NoSend
    /\ UNCHANGED <<loop, evars, dvars>>

\* Lines 149-150: finally: client.close(); the function returns.
TI_finally ==
    /\ spc = "ti_finally"
    /\ Client_close
    /\ spc' = "ti_idle"
    /\ UNCHANGED <<sent, board, raised, locals, loop, evars, dvars>>

TIInit == ScriptInit("ti_idle")

TINext ==
    \/ TI_call
    \/ TI_client
    \/ TI_create_csv_logger
    \/ TI_disable_all
    \/ TI_configure_channel
    \/ TI_upload
    \/ TI_run
    \/ TI_trigger
    \/ TI_stop
    \/ TI_disable_after
    \/ TI_KeyboardInterrupt
    \/ TI_finally

SpecTI == TIInit /\ [][TINext]_vars

----------------------------------------------------------------------------
(* The experiment loop: the __main__ block of src/TI_dipole_model.py.      *)

TARGET_CHANNEL_INDEX == 30

\* The captures get_recording_data hands back: the last sample of the
\* channels in the file, padded with zeros to ChannelLimit entries.
RecordingVectors ==
    { [c \in 1..ChannelLimit |->
          IF c = TARGET_CHANNEL_INDEX + 1 THEN target
          ELSE IF c <= 2 THEN other ELSE 0] :
      target \in {0, 3}, other \in {0, 5} }

RECURSIVE np_sum(_, _, _)
np_sum(v, lo, hi) ==
    IF lo > hi THEN 0
    ELSE IF lo = hi THEN v[lo]
    ELSE LET mid == (lo + hi) \div 2
         IN  np_sum(v, lo, mid) + np_sum(v, mid + 1, hi)

\* result = recording_data[TARGET_CHANNEL_INDEX]
\*          - 0.1 * np.sum(np.delete(recording_data, TARGET_CHANNEL_INDEX)),
\* in tenths.
reward(recording_data) ==
    10 * recording_data[TARGET_CHANNEL_INDEX + 1]
    - (np_sum(recording_data, 1, TARGET_CHANNEL_INDEX)
       + np_sum(recording_data, TARGET_CHANNEL_INDEX + 2, Len(recording_data)))

Last(seq) == seq[Len(seq)]

\* Line 82: action = model.suggest_parameters(): one pass of its loop per
\* step, until it returns.
Loop_suggest_parameters ==
    /\ loop.pc = "suggest"
    /\ raised = ""
    /\ BOModel_iteration
    /\ loop' = IF pc' = "idle"
               THEN [loop EXCEPT !.pc = "stimulate",
                                 !.suggested = Append(@, out'.val),
                                 !.events = Append(@, "suggest")]
               ELSE loop
    /\ UNCHANGED <<engine, ti_channels, time_decay, params_history,
                   results_history, time_stamps, optimizer, observed,
                   last_best, dvars, sock, open_conns, sent, board, spc,
                   locals, raised>>

\* Lines 83-103: run_ti_dipole_stimulation is called with the channels of
\* the action.
Loop_run_ti_dipole_stimulation ==
    /\ loop.pc = "stimulate"
    /\ LET action == Last(loop.suggested)
       IN  TI_enter(<<action.channel_a, action.channel_b,
                      action.return_channel_a, action.return_channel_b>>)
    /\ loop' = [loop EXCEPT !.pc = "stimulating",
                            !.events = Append(@, "stimulate")]
    /\ UNCHANGED <<evars, dvars>>

\* Line 106: the call has returned; time.sleep(LOOP_INTERVAL).
Loop_sleep ==
    /\ loop.pc = "stimulating"
    /\ spc = "ti_idle"
    /\ loop' = [loop EXCEPT !.pc = "capture", !.events = Append(@, "settle")]
    /\ UNCHANGED <<sock, open_conns, sent, board, spc, locals, raised,
                   evars, dvars>>

\* Line 109: recording_data = get_recording_data(): a vector of
\* ChannelLimit entries, or one of the errors of the decoder.
Loop_get_recording_data ==
    /\ loop.pc = "capture"
    /\ \/ /\ \E recording_data \in RecordingVectors :
                loop' = [loop EXCEPT !.pc = "reward",
                                     !.recording_data = recording_data,
                                     !.events = Append(@, "capture")]
          /\ raised' = raised
       \/ /\ \E e \in {"FileNotFoundError", "IndexError"} : raised' = e
          /\ loop' = loop
    /\ UNCHANGED <<sock, open_conns, sent, board, spc, locals, evars, dvars>>

\* Lines 112-113: the reward.
Loop_result ==
    /\ loop.pc = "reward"
    /\ loop' = [loop EXCEPT !.pc = "update",
                            !.result = reward(loop.recording_data),
                            !.events = Append(@, "reward")]
    /\ UNCHANGED <<sock, open_conns, sent, board, spc, locals, raised,
                   evars, dvars>>

\* Line 118: model.update(action, result): BOModel.update with the action
\* of this iteration; then the next iteration, or the end of the loop.
Loop_update ==
    /\ loop.pc = "update"
    /\ LET params == Last(loop.suggested)
           p == BOModel_param_list(params)
       IN  /\ params_history' = Append(params_history, p)
           /\ results_history' = Append(results_history, loop.result)
           /\ optimizer' = Optimizer_tell(optimizer, p,
                                          BOModel_told_value(loop.result))
           /\ observed' = Append(observed, [params |-> params,
                                            result |-> loop.result])
    /\ out' = [op |-> "update", val |-> None]
    /\ last_best' = NoBest
    /\ loop' = [loop EXCEPT
                   !.pc = IF loop.iteration + 1 = MaxIterations
                          THEN "best" ELSE "suggest",
                   !.iteration = @ + 1,
                   !.events = Append(@, "observe")]
    /\ UNCHANGED <<engine, ti_channels, time_decay, time_stamps, pc,
                   suggestion, dvars, sock, open_conns, sent, board, spc,
                   locals, raised>>

\* Line 121: best_result_value, best_params = model.best_result().
Loop_best_result ==
    /\ loop.pc = "best"
    /\ out' = [op |-> "best",
               val |-> BOModel_best_result(results_history, params_history)]
    /\ last_best' = BestCalled(out'.val)
    /\ loop' = [loop EXCEPT !.pc = "done", !.reported = out'.val,
                            !.events = Append(@, "best")]
    /\ UNCHANGED <<engine, ti_channels, time_decay, params_history,
                   results_history, time_stamps, optimizer, pc, suggestion,
                   observed, dvars, sock, open_conns, sent, board, spc,
                   locals, raised>>

\* Line 77: model = BOModel(ti_channels=TI_CHANNELS,
\* amplitude_range=AMPLITUDE_RANGE); the loop is about to start.
LoopInit ==
    /\ OthersOff
    /\ sock = "unset"
    /\ open_conns = 0
    /\ sent = 0
    /\ board = NoBoard
    /\ spc = "ti_idle"
    /\ locals = NoLocals
    /\ raised = ""
    /\ loop = [NoLoop EXCEPT !.pc = "suggest"]

\* The loop and the routine it calls, with nobody pressing Ctrl-C.
LoopNext ==
    \/ Loop_suggest_parameters
    \/ Loop_run_ti_dipole_stimulation
    \/ TI_client
    \/ TI_create_csv_logger
    \/ TI_disable_all
    \/ TI_configure_channel
    \/ TI_upload
    \/ TI_run
    \/ TI_trigger
    \/ TI_stop
    \/ TI_disable_after
    \/ TI_finally
    \/ Loop_sleep
    \/ Loop_get_recording_data
    \/ Loop_result
    \/ Loop_update
    \/ Loop_best_result

SpecLoop == LoopInit /\ [][LoopNext]_vars

\* The script is sequential code that keeps running: its next step is
\* taken.
FairLoop == SpecLoop /\ WF_vars(LoopNext)

----------------------------------------------------------------------------
(* Properties of the stimulation routines *)

\* run_ti_dipole_stimulation has returned to its caller.
TIReturned == spc = "ti_idle" /\ locals.i > 0

\* C28: whenever run_ti_dipole_stimulation returns, normally or after a
\* KeyboardInterrupt inside its try statement, the last run-mode command it
\* sent is stop if it sent run at all, and the last stimenabled command for
\* each of its four channels is false.
C28_StoppedAndDisabledOnReturn ==
    TIReturned =>
        /\ board.runmode # "run"
        /\ \A n \in 1..Len(locals.args) : locals.args[n] \notin board.enabled

\* C29: the connection run_ti_dipole_stimulation opens is closed before the
\* function is left on any path (return, KeyboardInterrupt, failure of
\* create_csv_logger), so that at most one connection is ever open and none
\* between the calls.
C29_ConnectionClosedOnEveryPath ==
    /\ open_conns <= 1
    /\ spc \in {"ti_idle", "ti_left"} => open_conns = 0

\* C24: no 'set <channel>....' command and no upload is sent while the
\* last run-mode command is run; run comes directly after the upload and
\* the trigger after run; channels are disabled only while the board is
\* stopped.
C24_NoConfigurationWhileRunning ==
    [][board'.count = board.count + 1 =>
          /\ board'.last.ch # -1 => board.runmode \in {"none", "stop"}
          /\ board'.last.name = "uploadstimparameters"
                => board.runmode \in {"none", "stop"}
          /\ board'.last = Cmd("runmode", -1, "run")
                => board.last.name = "uploadstimparameters"
          /\ board'.last.name = "manualstimtriggerpulse"
                => board.last = Cmd("runmode", -1, "run")]_vars

----------------------------------------------------------------------------
(* Properties of the experiment loop *)

\* The events of one iteration, in order.
IterationEvents ==
    <<"suggest", "stimulate", "settle", "capture", "reward", "observe">>

\* The loop is over: best was reported, or an error of the stimulation or
\* of the capture left the script.
LoopEnded == loop.pc = "done" \/ raised # ""

\* The order of the events so far, the assignments observed and the report.
C21_Order ==
    /\ Len(loop.events) <= MaxIterations * Len(IterationEvents) + 1
    /\ \A j \in 1..Len(loop.events) :
          loop.events[j] = IF j = MaxIterations * Len(IterationEvents) + 1
                           THEN "best"
                           ELSE IterationEvents[((j - 1) % Len(IterationEvents)) + 1]
    /\ Len(observed) = loop.iteration
    /\ Len(loop.suggested) \in {loop.iteration, loop.iteration + 1}
    /\ \A j \in 1..Len(observed) : observed[j].params = loop.suggested[j]
    /\ loop.pc = "done" =>
          /\ loop.iteration = MaxIterations
          /\ Len(results_history) = MaxIterations
          /\ loop.reported = BOModel_best_result(results_history, params_history)

\* C21: the loop runs exactly MaxIterations iterations, each one suggest,
\* stimulate, settle, capture, reward, observe in this order; observe is
\* called once per iteration with the assignment suggest returned; best is
\* reported after the last observe, over exactly MaxIterations
\* observations.  (A loop that an error of the stimulation or of the
\* capture ends is not held against the claim.)
C21_LoopRunsBudget ==
    /\ []C21_Order
    /\ <>LoopEnded

====
